---- MODULE Spec2Model ----
(***************************************************************************)
(* A state-machine model of the theramin continuum instrument:             *)
(*   - the hand-tracking App (components/layouts/interactive-continuum.tsx)*)
(*   - the pointer-only KeyboardContinuum component                        *)
(* Times are in hundredths of a second (0.15 s = 15).  A frequency is the  *)
(* triple (note, num, den): freq(note) * (freq(note+1)/freq(note))^(num/den)*)
(* A gain value is the rational (num, den).                                *)
(***************************************************************************)
EXTENDS Integers, Sequences, FiniteSets, TLC

VARIABLES
    component,        \* which component this instance is: "App" | "KeyboardContinuum"
    mounted,          \* the component is mounted (its refs to DOM elements are set)
    isModelLoading,   \* useState(true)
    isReady,          \* useState(false)
    audioContextRef,  \* "none" (ref is null) or the AudioContext's state
    resumePending,    \* initAudioContext calls suspended at `await resume()`
    oscRef,           \* slot -> voice id held by the slot's oscillator ref, 0 = null
    gainRef,          \* slot -> voice id held by the slot's gain ref, 0 = null
    nodes,            \* the oscillator+gain pairs (voices) in the audio graph, by id
    leftHands,        \* useState<HandPoint[]>([])
    rightHands,       \* useState<HandPoint[]>([])
    effects,          \* passive effects scheduled by the last commit, in order
    calls,            \* Web Audio calls issued by the most recent handler
    last,             \* the most recent handler
    hands,            \* SpecTrack: the detector result of the frame being processed
    timers,           \* utils/audio.ts: cleanup timeouts set by stopOscillator, pending
    frameRef,         \* useAnimationFrame: 1 when the id it holds is a pending request, else 0
    timeRef,          \* useAnimationFrame: timeRef.current is set (not undefined)
    ticks,            \* runDetection calls made by the animation frame so far
    inflight,         \* runDetection calls suspended at `await estimateHands(...)`
    applied,          \* the tick whose lists leftHands / rightHands hold, 0 = none
    pitchIn,          \* SpecPitch: the mapping applied and its arguments
    pitchOut,         \* SpecPitch: <<the frequency it returned>>, or <<>> before the call
    requests,         \* SpecHook: the ids of the animation-frame requests pending
    props             \* SpecHook: the arguments of the last render of useAnimationFrame

vars == <<component, mounted, isModelLoading, isReady, audioContextRef,
          resumePending, oscRef, gainRef, nodes, leftHands, rightHands,
          effects, calls, last, hands, timers,
          frameRef, timeRef, ticks, inflight, applied, pitchIn, pitchOut,
          requests, props>>

\* the state of the animation-frame hook and of the detections in flight
tickVars == <<frameRef, timeRef, ticks, inflight, applied>>

\* the state of the pitch mappings taken on their own
pitchVars == <<pitchIn, pitchOut>>

\* the state of useAnimationFrame taken on its own
hookVars == <<requests, props>>

----------------------------------------------------------------------------
(* Bounds of the model *)

\* initAudioContext calls awaiting resume() at the same time
MaxPending == 2
\* physical hands in front of the camera while the whole App is explored
MaxHandIds == 2
\* hands in one detector result when runDetection's list building is explored alone
MaxTrackHands == 4
\* cleanup timeouts of stopOscillator pending at the same time
MaxTimers == 2
\* width of the screen (canvas and keyboard surface both span it), in pixels
ScreenW == 72
\* height of the screen (canvas and keyboard surface both span it), in pixels
ScreenH == 40

----------------------------------------------------------------------------
(* Program constants *)

TRANSPOSE == 36
START_NOTE == 1 + TRANSPOSE
END_NOTE == 36 + TRANSPOSE
KBD_START_NOTE == 25
KBD_END_NOTE == 72
MAX_SIDE == 3
MAX_HANDS == 2
LANDMARK == 12
ATTACK == 10
RELEASE == 15
STOP_AFTER == 20
FREQ_RAMP == 2
GAIN_RAMP == 1
KeyboardLeft == 0
audio_START_NOTE == 25
audio_END_NOTE == 72
audio_ATTACK == 8
audio_RELEASE == 12
audio_STOP_AFTER == 14

RightSlots == <<"R0", "R1", "R2">>
LeftSlots == <<"L0", "L1", "L2">>
AppSlots == {"mouse", "R0", "R1", "R2", "L0", "L1", "L2"}
Slots == AppSlots \cup {"tone", "util"}

Min(a, b) == IF a < b THEN a ELSE b
Max(a, b) == IF a > b THEN a ELSE b

\* JavaScript's %: the remainder takes the sign of the dividend (b > 0)
JsRem(a, b) == IF a >= 0 THEN a % b ELSE 0 - ((0 - a) % b)

----------------------------------------------------------------------------
(* Pitch and volume mappings of the hand-tracking App *)

Freq(note, num, den) == [note |-> note, num |-> num, den |-> den]
Gain(num, den) == [num |-> num, den |-> den]

\* getFrequencyFromX: x is a canvas coordinate; the canvas is mirrored
getFrequencyFromX(x) ==
    IF ~mounted THEN Freq(START_NOTE, 0, 1)
    ELSE LET canvasWidth == ScreenW
             left == KeyboardLeft
             totalWidth == ScreenW
             numKeys == END_NOTE - START_NOTE + 1
             \* relativeX = (canvasWidth - x) / canvasWidth
             keyIndex == ((canvasWidth - x) * numKeys) \div canvasWidth
             note == START_NOTE + keyIndex
             \* clientX / keyWidth, as the fraction n / d with d > 0
             n == (left * canvasWidth + (canvasWidth - x) * totalWidth) * numKeys
             d == canvasWidth * totalWidth
         IN  Freq(note, JsRem(n, d), d)

\* the variant of getVolumeFromY that does not clamp y / canvasHeight
getVolumeFromY_unclamped(clientY) ==
    IF ~mounted THEN Gain(15, 100)
    ELSE LET canvasHeight == ScreenH
         IN  Gain(canvasHeight - clientY, 4 * canvasHeight)

\* getVolumeFromY: (1 - clamp(y / canvasHeight, 0, 1)) * 0.25
getVolumeFromY(clientY) ==
    IF ~mounted THEN Gain(15, 100)
    ELSE LET canvasHeight == ScreenH
             clamped == Min(Max(clientY, 0), canvasHeight)
         IN  Gain(canvasHeight - clamped, 4 * canvasHeight)

\* the pitch handleMouseMove computes inline from the pointer's clientX
mouseMoveFrequency(clientX) ==
    LET left == KeyboardLeft
        totalWidth == ScreenW
        numKeys == END_NOTE - START_NOTE + 1
        relativeX == clientX - left
        keyIndex == (relativeX * numKeys) \div totalWidth
        note == START_NOTE + keyIndex
    IN  Freq(note, JsRem(relativeX * numKeys, totalWidth), totalWidth)

----------------------------------------------------------------------------
(* Voices.  The operators take and return the audio state                  *)
(* [oscRef, gainRef, nodes, calls] so that a handler can chain them.       *)

Call(api, node, at) == [api |-> api, node |-> node, at |-> at]

\* A voice that has been disconnected and that no ref holds is out of the
\* program's reach and of the listener's; it is dropped from the model.
Finished(st, id) ==
    /\ ~st.nodes[id].connected
    /\ \A s \in DOMAIN st.oscRef : st.oscRef[s] # id /\ st.gainRef[s] # id

Live(st) == [id \in {i \in DOMAIN st.nodes : ~Finished(st, i)} |-> st.nodes[id]]

\* the id of the next voice created: the least one not in use
NewId(ns) == CHOOSE i \in 1..(Cardinality(DOMAIN ns) + 1) :
                /\ i \notin DOMAIN ns
                /\ \A j \in 1..(i - 1) : j \in DOMAIN ns

\* the audio state a handler starts from
Cur == [oscRef |-> oscRef, gainRef |-> gainRef, nodes |-> nodes, calls |-> <<>>]

\* the Web Audio calls of a start, an update and a stop, in the order issued
StartCalls(id, attack) ==
    << Call("createOscillator", id, -1),
       Call("gain.linearRampToValueAtTime", id, attack),
       Call("osc.start", id, 0) >>

UpdateCalls(id, g) ==
    << Call("frequency.exponentialRampToValueAtTime", id, FREQ_RAMP),
       Call("gain.linearRampToValueAtTime", g, GAIN_RAMP) >>

StopCalls(id, g) ==
    << Call("gain.cancelScheduledValues", g, 0),
       Call("gain.linearRampToValueAtTime", g, RELEASE),
       Call("osc.stop", id, STOP_AFTER),
       Call("osc.disconnect", id, 0),
       Call("gain.disconnect", g, 0) >>

NewVoice(slot, freq, volume, who) ==
    [slot |-> slot, freq |-> freq, gain |-> volume, started |-> TRUE,
     connected |-> TRUE, stops |-> 0, rampEnd |-> -1, stopAt |-> -1,
     disconnectAt |-> -1, src |-> who]

\* the variant of startAudioNode that does not test oscRef.current
startAudioNode_noOccupiedTest(st, slot, freq, volume, who) ==
    IF audioContextRef = "none" THEN st
    ELSE LET id == NewId(st.nodes)
         IN  [oscRef |-> [st.oscRef EXCEPT ![slot] = id],
              gainRef |-> [st.gainRef EXCEPT ![slot] = id],
              nodes |-> st.nodes @@ (id :> NewVoice(slot, freq, volume, who)),
              calls |-> st.calls \o StartCalls(id, ATTACK)]

startAudioNode(st, slot, freq, volume, who) ==
    IF audioContextRef = "none" \/ st.oscRef[slot] # 0 THEN st
    ELSE LET id == NewId(st.nodes)
         IN  [oscRef |-> [st.oscRef EXCEPT ![slot] = id],
              gainRef |-> [st.gainRef EXCEPT ![slot] = id],
              nodes |-> st.nodes @@ (id :> NewVoice(slot, freq, volume, who)),
              calls |-> st.calls \o StartCalls(id, ATTACK)]

\* the variant of stopAudioNode that leaves the slot's refs set
stopAudioNode_keepRefs(st, slot) ==
    IF st.oscRef[slot] = 0 \/ st.gainRef[slot] = 0 \/ audioContextRef = "none"
    THEN st
    ELSE LET id == st.oscRef[slot]
             g == st.gainRef[slot]
         IN  [st EXCEPT
                 !.nodes = [st.nodes EXCEPT
                               ![id].stops = @ + 1,
                               ![id].stopAt = STOP_AFTER,
                               ![id].connected = FALSE,
                               ![id].disconnectAt = 0,
                               ![g].rampEnd = RELEASE,
                               ![g].gain = Gain(0, 1)],
                 !.calls = st.calls \o StopCalls(id, g)]

stopAudioNode(st, slot) ==
    IF st.oscRef[slot] = 0 \/ st.gainRef[slot] = 0 \/ audioContextRef = "none"
    THEN st
    ELSE LET id == st.oscRef[slot]
             g == st.gainRef[slot]
         IN  [oscRef |-> [st.oscRef EXCEPT ![slot] = 0],
              gainRef |-> [st.gainRef EXCEPT ![slot] = 0],
              nodes |-> [st.nodes EXCEPT
                            ![id].stops = @ + 1,
                            ![id].stopAt = STOP_AFTER,
                            ![id].connected = FALSE,
                            ![id].disconnectAt = 0,
                            ![g].rampEnd = RELEASE,
                            ![g].gain = Gain(0, 1)],
              calls |-> st.calls \o StopCalls(id, g)]

\* the variant of updateAudioNode that starts a voice in a slot that has none
updateAudioNode_startsWhenIdle(st, slot, freq, volume, who) ==
    IF audioContextRef = "none" THEN st
    ELSE IF st.oscRef[slot] = 0 \/ st.gainRef[slot] = 0
    THEN startAudioNode(st, slot, freq, volume, who)
    ELSE LET id == st.oscRef[slot]
             g == st.gainRef[slot]
         IN  [st EXCEPT
                 !.nodes = [st.nodes EXCEPT ![id].freq = freq,
                                            ![g].gain = volume],
                 !.calls = st.calls \o UpdateCalls(id, g)]

updateAudioNode(st, slot, freq, volume, who) ==
    IF st.oscRef[slot] = 0 \/ st.gainRef[slot] = 0 \/ audioContextRef = "none"
    THEN st
    ELSE LET id == st.oscRef[slot]
             g == st.gainRef[slot]
         IN  [st EXCEPT
                 !.nodes = [st.nodes EXCEPT ![id].freq = freq,
                                            ![g].gain = volume],
                 !.calls = st.calls \o UpdateCalls(id, g)]

----------------------------------------------------------------------------
(* runDetection: from the detector's hands to the two tracked lists.       *)
(* A detected hand is [handedness, keypoints, tip, id]: keypoints is the   *)
(* length of its keypoint array (-1: no array), tip is keypoints[12], id   *)
(* names the physical hand (the program does not see it; the model carries *)
(* it to tell which hand a voice follows).                                 *)

HandPoint(hand) == [x |-> hand.tip.x, y |-> hand.tip.y, id |-> hand.id]

hasLandmark(hand) == hand.keypoints # -1 /\ hand.keypoints > LANDMARK

\* the variant of the loop that files a hand under the detector's own label
RECURSIVE processHands_unmirrored(_, _, _)
processHands_unmirrored(hs, newLeftHands, newRightHands) ==
    IF hs = <<>> THEN [left |-> newLeftHands, right |-> newRightHands]
    ELSE LET hand == Head(hs)
         IN  IF hasLandmark(hand) /\ hand.handedness = "Left"
             THEN processHands_unmirrored(Tail(hs), Append(newLeftHands, HandPoint(hand)),
                                          newRightHands)
             ELSE IF hasLandmark(hand) /\ hand.handedness = "Right"
             THEN processHands_unmirrored(Tail(hs), newLeftHands,
                                          Append(newRightHands, HandPoint(hand)))
             ELSE processHands_unmirrored(Tail(hs), newLeftHands, newRightHands)

\* the variant of the loop that gives up the frame at a hand without the landmark
RECURSIVE processHands_abortOnMalformed(_, _, _)
processHands_abortOnMalformed(hs, newLeftHands, newRightHands) ==
    IF hs = <<>> THEN [left |-> newLeftHands, right |-> newRightHands]
    ELSE LET hand == Head(hs)
         IN  IF ~hasLandmark(hand) THEN [left |-> <<>>, right |-> <<>>]
             ELSE IF hand.handedness = "Right"
             THEN processHands_abortOnMalformed(Tail(hs),
                      Append(newLeftHands, HandPoint(hand)), newRightHands)
             ELSE IF hand.handedness = "Left"
             THEN processHands_abortOnMalformed(Tail(hs), newLeftHands,
                      Append(newRightHands, HandPoint(hand)))
             ELSE processHands_abortOnMalformed(Tail(hs), newLeftHands, newRightHands)

\* the for loop over the detector's hands
RECURSIVE processHands(_, _, _)
processHands(hs, newLeftHands, newRightHands) ==
    IF hs = <<>> THEN [left |-> newLeftHands, right |-> newRightHands]
    ELSE LET hand == Head(hs)
         IN  IF hasLandmark(hand) /\ hand.handedness = "Right"
             THEN processHands(Tail(hs), Append(newLeftHands, HandPoint(hand)),
                               newRightHands)
             ELSE IF hasLandmark(hand) /\ hand.handedness = "Left"
             THEN processHands(Tail(hs), newLeftHands,
                               Append(newRightHands, HandPoint(hand)))
             ELSE processHands(Tail(hs), newLeftHands, newRightHands)

\* the variant of slice(0, 3) that keeps the last three entries
slice3_last(list) == SubSeq(list, Max(1, Len(list) - MAX_SIDE + 1), Len(list))

\* list.slice(0, 3)
slice3(list) == SubSeq(list, 1, Min(MAX_SIDE, Len(list)))

----------------------------------------------------------------------------
(* The per-side reconcile effects *)

\* the variant of the loop body that leaves the slot of an absent point alone
RECURSIVE reconcile_noStop(_, _, _, _)
reconcile_noStop(st, list, slots, i) ==
    IF i >= MAX_SIDE THEN st
    ELSE LET slot == slots[i + 1]
         IN  IF i + 1 <= Len(list)
             THEN LET handData == list[i + 1]
                      freq == getFrequencyFromX(handData.x)
                      volume == getVolumeFromY(handData.y)
                  IN  IF st.oscRef[slot] = 0
                      THEN reconcile_noStop(startAudioNode(st, slot, freq, volume, handData.id),
                                            list, slots, i + 1)
                      ELSE reconcile_noStop(updateAudioNode(st, slot, freq, volume, handData.id),
                                            list, slots, i + 1)
             ELSE reconcile_noStop(st, list, slots, i + 1)

\* the variant of the loop body that restarts the voice of a present point
RECURSIVE reconcile_retrigger(_, _, _, _)
reconcile_retrigger(st, list, slots, i) ==
    IF i >= MAX_SIDE THEN st
    ELSE LET slot == slots[i + 1]
         IN  IF i + 1 <= Len(list)
             THEN LET handData == list[i + 1]
                      freq == getFrequencyFromX(handData.x)
                      volume == getVolumeFromY(handData.y)
                  IN  reconcile_retrigger(
                          startAudioNode(stopAudioNode(st, slot), slot, freq, volume,
                                         handData.id),
                          list, slots, i + 1)
             ELSE reconcile_retrigger(stopAudioNode(st, slot), list, slots, i + 1)

\* the variant of the loop body that leaves the voice of a point that
\* persists as it is (no update)
RECURSIVE reconcile_noUpdate(_, _, _, _)
reconcile_noUpdate(st, list, slots, i) ==
    IF i >= MAX_SIDE THEN st
    ELSE LET slot == slots[i + 1]
         IN  IF i + 1 <= Len(list)
             THEN LET handData == list[i + 1]
                      freq == getFrequencyFromX(handData.x)
                      volume == getVolumeFromY(handData.y)
                  IN  IF st.oscRef[slot] = 0
                      THEN reconcile_noUpdate(startAudioNode(st, slot, freq, volume, handData.id),
                                              list, slots, i + 1)
                      ELSE reconcile_noUpdate(st, list, slots, i + 1)
             ELSE reconcile_noUpdate(stopAudioNode(st, slot), list, slots, i + 1)

\* for (let i = 0; i < 3; i++) { ... } of either effect, from index i on
RECURSIVE reconcile(_, _, _, _)
reconcile(st, list, slots, i) ==
    IF i >= MAX_SIDE THEN st
    ELSE LET slot == slots[i + 1]
         IN  IF i + 1 <= Len(list)
             THEN LET handData == list[i + 1]
                      freq == getFrequencyFromX(handData.x)
                      volume == getVolumeFromY(handData.y)
                  IN  IF st.oscRef[slot] = 0
                      THEN reconcile(startAudioNode(st, slot, freq, volume, handData.id),
                                     list, slots, i + 1)
                      ELSE reconcile(updateAudioNode(st, slot, freq, volume, handData.id),
                                     list, slots, i + 1)
             ELSE reconcile(stopAudioNode(st, slot), list, slots, i + 1)

----------------------------------------------------------------------------
(* Inputs *)

\* pointer positions (clientX, clientY) the host delivers
PointerAt == { [x |-> 10, y |-> 30], [x |-> 50, y |-> 0] }

\* where each physical hand holds its fingertip, in canvas coordinates
TipOf(id) == IF id % 2 = 1 THEN [x |-> 10, y |-> 10] ELSE [x |-> 50, y |-> 30]

\* a detector result for one hand, with all 21 keypoints (hands that lack
\* the fingertip are drawn in TrackFrames below)
AppHand == { [handedness |-> h, keypoints |-> 21, tip |-> TipOf(id), id |-> id] :
               h \in {"Left", "Right"}, id \in 1..MaxHandIds }

DistinctIds(f) == \A i, j \in DOMAIN f : i # j => f[i].id # f[j].id

AppFrames == { f \in UNION { [1..n -> AppHand] : n \in 0..MAX_HANDS } :
                 DistinctIds(f) }

----------------------------------------------------------------------------
(* The hand-tracking App *)

\* the variant of the test that also holds while the context is suspended
createsContext_whileSuspended(ref) == ref \in {"none", "suspended"}

\* if (!audioContextRef.current): the ref holds no context yet
createsContext(ref) == ref = "none"

\* the constructor call of initAudioContext, if it makes one
ContextCalls ==
    IF createsContext(audioContextRef) THEN << Call("new AudioContext", 0, 0) >>
    ELSE <<>>

Apply(st) ==
    /\ oscRef' = st.oscRef
    /\ gainRef' = st.gainRef
    /\ nodes' = Live(st)
    /\ calls' = st.calls

Silent == calls' = <<>> /\ UNCHANGED <<oscRef, gainRef, nodes>>

\* setIsReady(true): the commit schedules both reconcile effects when the
\* value changes (isReady is among their dependencies)
SetIsReady ==
    IF mounted
    THEN /\ isReady' = TRUE
         /\ effects' = IF isReady \/ component # "App" THEN effects
                       ELSE <<"right", "left">>
    ELSE UNCHANGED <<isReady, effects>>

\* initialize() has finished: setIsModelLoading(false)
modelLoaded ==
    /\ component = "App" /\ mounted /\ effects = <<>>
    /\ isModelLoading
    /\ isModelLoading' = FALSE
    /\ last' = "modelLoaded"
    /\ UNCHANGED <<tickVars, pitchVars, hookVars>>
    /\ Silent
    /\ UNCHANGED <<component, mounted, isReady, audioContextRef, resumePending,
                   leftHands, rightHands, effects, hands, timers>>

\* initAudioContext up to its first await (surface click or Start button);
\* a context made in a click handler starts suspended or running
initAudioContext ==
    /\ component = "App" /\ mounted /\ effects = <<>>
    /\ \E made \in {"suspended", "running"} :
         LET state == IF createsContext(audioContextRef) THEN made ELSE audioContextRef
         IN  /\ audioContextRef' = state
             /\ IF state = "suspended"
                THEN /\ resumePending < MaxPending
                     /\ resumePending' = resumePending + 1
                     /\ UNCHANGED <<isReady, effects>>
                ELSE /\ UNCHANGED resumePending
                     /\ SetIsReady
    /\ last' = "initAudioContext"
    /\ UNCHANGED <<tickVars, pitchVars, hookVars>>
    /\ calls' = ContextCalls
    /\ UNCHANGED <<oscRef, gainRef, nodes>>
    /\ UNCHANGED <<component, mounted, isModelLoading, leftHands, rightHands, hands, timers>>

\* initAudioContext after `await audioContextRef.current.resume()`: the
\* context settles every pending resume() promise together, so every suspended
\* call goes on in the same turn and their setIsReady(true) are one commit
resumeResolved ==
    /\ component = "App" /\ effects = <<>>
    /\ resumePending > 0
    /\ resumePending' = 0
    /\ IF audioContextRef = "closed"
       THEN UNCHANGED <<audioContextRef, isReady, effects>>
       ELSE audioContextRef' = "running" /\ SetIsReady
    /\ last' = "resumeResolved"
    /\ UNCHANGED <<tickVars, pitchVars, hookVars>>
    /\ Silent
    /\ UNCHANGED <<component, mounted, isModelLoading, leftHands, rightHands, hands, timers>>

\* the variant of handleMouseEnter that makes and resumes the context itself
handleMouseEnter_resumes(event) ==
    /\ component = "App" /\ mounted /\ effects = <<>>
    /\ audioContextRef' = IF audioContextRef = "none" THEN "suspended" ELSE audioContextRef
    /\ resumePending' = IF audioContextRef' = "suspended" /\ resumePending < MaxPending
                        THEN resumePending + 1 ELSE resumePending
    /\ Apply(IF ~isReady THEN Cur
             ELSE startAudioNode(Cur, "mouse", getFrequencyFromX(event.x),
                                 getVolumeFromY(event.y), 0))
    /\ last' = "handleMouseEnter"
    /\ UNCHANGED <<component, mounted, isModelLoading, isReady,
                   leftHands, rightHands, effects, hands, timers, tickVars, pitchVars, hookVars>>

\* the variant of handleMouseEnter without its isReady test
handleMouseEnter_ungated(event) ==
    /\ component = "App" /\ mounted /\ effects = <<>>
    /\ Apply(startAudioNode(Cur, "mouse", getFrequencyFromX(event.x),
                            getVolumeFromY(event.y), 0))
    /\ last' = "handleMouseEnter"
    /\ UNCHANGED <<tickVars, pitchVars, hookVars>>
    /\ UNCHANGED <<component, mounted, isModelLoading, isReady, audioContextRef,
                   resumePending, leftHands, rightHands, effects, hands, timers>>

handleMouseEnter(event) ==
    /\ component = "App" /\ mounted /\ effects = <<>>
    /\ Apply(IF ~isReady THEN Cur
             ELSE startAudioNode(Cur, "mouse", getFrequencyFromX(event.x),
                                 getVolumeFromY(event.y), 0))
    /\ last' = "handleMouseEnter"
    /\ UNCHANGED <<tickVars, pitchVars, hookVars>>
    /\ UNCHANGED <<component, mounted, isModelLoading, isReady, audioContextRef,
                   resumePending, leftHands, rightHands, effects, hands, timers>>

handleMouseLeave ==
    /\ component = "App" /\ mounted /\ effects = <<>>
    /\ Apply(stopAudioNode(Cur, "mouse"))
    /\ last' = "handleMouseLeave"
    /\ UNCHANGED <<tickVars, pitchVars, hookVars>>
    /\ UNCHANGED <<component, mounted, isModelLoading, isReady, audioContextRef,
                   resumePending, leftHands, rightHands, effects, hands, timers>>

handleMouseMove(event) ==
    /\ component = "App" /\ mounted /\ effects = <<>>
    /\ Apply(IF ~isReady \/ ~mounted THEN Cur
             ELSE updateAudioNode(Cur, "mouse", mouseMoveFrequency(event.x),
                                  getVolumeFromY(event.y), 0))
    /\ last' = "handleMouseMove"
    /\ UNCHANGED <<tickVars, pitchVars, hookVars>>
    /\ UNCHANGED <<component, mounted, isModelLoading, isReady, audioContextRef,
                   resumePending, leftHands, rightHands, effects, hands, timers>>

\* the tracked lists runDetection hands to setLeftHands / setRightHands
trackedLists(detected) ==
    LET lists == processHands(detected, <<>>, <<>>)
    IN  [left |-> slice3(lists.left), right |-> slice3(lists.right)]

\* runDetection from the point where estimateHands has resolved with
\* `detected`: both lists are set and the commit schedules both reconcile effects
runDetectionOn(detected) ==
    /\ component = "App" /\ mounted /\ effects = <<>>
    /\ ~isModelLoading /\ isReady
    /\ LET lists == trackedLists(detected)
       IN  /\ leftHands' = lists.left
           /\ rightHands' = lists.right
    /\ effects' = <<"right", "left">>
    /\ last' = "runDetection"
    /\ UNCHANGED <<tickVars, pitchVars, hookVars>>
    /\ Silent
    /\ UNCHANGED <<component, mounted, isModelLoading, isReady, audioContextRef,
                   resumePending, hands, timers>>

\* one animation frame: useAnimationFrame calls runDetection (the detector is
\* loaded and the audio is ready) and estimateHands resolves
runDetection == \E detected \in AppFrames : runDetectionOn(detected)

\* the variant of the right effect that walks the refs of the left side
rightHandsEffect_leftRefs ==
    /\ component = "App" /\ mounted
    /\ effects # <<>> /\ Head(effects) = "right"
    /\ Apply(IF ~isReady \/ ~mounted THEN Cur
             ELSE reconcile(Cur, rightHands, LeftSlots, 0))
    /\ effects' = Tail(effects)
    /\ last' = "rightHandsEffect"
    /\ UNCHANGED <<tickVars, pitchVars, hookVars>>
    /\ UNCHANGED <<component, mounted, isModelLoading, isReady, audioContextRef,
                   resumePending, leftHands, rightHands, hands, timers>>

\* useEffect(..., [isReady, rightHands, ...])
rightHandsEffect ==
    /\ component = "App" /\ mounted
    /\ effects # <<>> /\ Head(effects) = "right"
    /\ Apply(IF ~isReady \/ ~mounted THEN Cur
             ELSE reconcile(Cur, rightHands, RightSlots, 0))
    /\ effects' = Tail(effects)
    /\ last' = "rightHandsEffect"
    /\ UNCHANGED <<tickVars, pitchVars, hookVars>>
    /\ UNCHANGED <<component, mounted, isModelLoading, isReady, audioContextRef,
                   resumePending, leftHands, rightHands, hands, timers>>

\* useEffect(..., [isReady, leftHands, ...])
leftHandsEffect ==
    /\ component = "App" /\ mounted
    /\ effects # <<>> /\ Head(effects) = "left"
    /\ Apply(IF ~isReady \/ ~mounted THEN Cur
             ELSE reconcile(Cur, leftHands, LeftSlots, 0))
    /\ effects' = Tail(effects)
    /\ last' = "leftHandsEffect"
    /\ UNCHANGED <<tickVars, pitchVars, hookVars>>
    /\ UNCHANGED <<component, mounted, isModelLoading, isReady, audioContextRef,
                   resumePending, leftHands, rightHands, hands, timers>>

\* the stops of the cleanup: the pointer slot, then right i and left i for i = 0..2
RECURSIVE cleanupStops(_, _)
cleanupStops(st, i) ==
    IF i >= MAX_SIDE THEN st
    ELSE cleanupStops(stopAudioNode(stopAudioNode(st, RightSlots[i + 1]),
                                    LeftSlots[i + 1]), i + 1)

\* audioContextRef.current.close(), unless there is no context or it is closed
closeContext(st) ==
    IF audioContextRef \notin {"none", "closed"}
    THEN [st EXCEPT !.calls = @ \o << Call("audioContext.close", 0, 0) >>]
    ELSE st

\* the cleanup of the App's unmount effect
unmount ==
    /\ component = "App" /\ mounted /\ effects = <<>>
    /\ Apply(closeContext(cleanupStops(stopAudioNode(Cur, "mouse"), 0)))
    /\ audioContextRef' = IF audioContextRef \notin {"none", "closed"} THEN "closed"
                          ELSE audioContextRef
    /\ mounted' = FALSE
    /\ last' = "unmount"
    /\ UNCHANGED <<tickVars, pitchVars, hookVars>>
    /\ UNCHANGED <<component, isModelLoading, isReady, resumePending,
                   leftHands, rightHands, effects, hands, timers>>

----------------------------------------------------------------------------
(* KeyboardContinuum: one voice, in the slot "tone" *)

kbd_getFrequencyFromX(x) ==
    IF ~mounted THEN Freq(KBD_START_NOTE, 0, 1)
    ELSE LET left == KeyboardLeft
             totalWidth == ScreenW
             numKeys == KBD_END_NOTE - KBD_START_NOTE + 1
             relativeX == x - left
             keyIndex == (relativeX * numKeys) \div totalWidth
             note == KBD_START_NOTE + keyIndex
         IN  Freq(note, JsRem(relativeX * numKeys, totalWidth), totalWidth)

kbd_initAudioContext ==
    /\ component = "KeyboardContinuum" /\ mounted
    /\ \E made \in {"suspended", "running"} :
         LET state == IF createsContext(audioContextRef) THEN made ELSE audioContextRef
         IN  /\ audioContextRef' = state
             /\ IF state = "suspended"
                THEN /\ resumePending < MaxPending
                     /\ resumePending' = resumePending + 1
                     /\ UNCHANGED <<isReady, effects>>
                ELSE /\ UNCHANGED resumePending
                     /\ SetIsReady
    /\ last' = "initAudioContext"
    /\ UNCHANGED <<tickVars, pitchVars, hookVars>>
    /\ calls' = ContextCalls
    /\ UNCHANGED <<oscRef, gainRef, nodes>>
    /\ UNCHANGED <<component, mounted, isModelLoading, leftHands, rightHands, hands, timers>>

kbd_resumeResolved ==
    /\ component = "KeyboardContinuum"
    /\ resumePending > 0
    /\ resumePending' = 0
    /\ IF audioContextRef = "closed"
       THEN UNCHANGED <<audioContextRef, isReady, effects>>
       ELSE audioContextRef' = "running" /\ SetIsReady
    /\ last' = "resumeResolved"
    /\ UNCHANGED <<tickVars, pitchVars, hookVars>>
    /\ Silent
    /\ UNCHANGED <<component, mounted, isModelLoading, leftHands, rightHands, hands, timers>>

\* onMouseEnter
startTone(event) ==
    /\ component = "KeyboardContinuum" /\ mounted
    /\ Apply(IF ~isReady \/ oscRef["tone"] # 0 THEN Cur
             ELSE LET id == NewId(Cur.nodes)
                  IN  [oscRef |-> [oscRef EXCEPT !["tone"] = id],
                       gainRef |-> [gainRef EXCEPT !["tone"] = id],
                       nodes |-> Cur.nodes @@ (id :> NewVoice("tone",
                                     kbd_getFrequencyFromX(event.x), Gain(15, 100), 0)),
                       calls |-> StartCalls(id, ATTACK)])
    /\ last' = "startTone"
    /\ UNCHANGED <<tickVars, pitchVars, hookVars>>
    /\ UNCHANGED <<component, mounted, isModelLoading, isReady, audioContextRef,
                   resumePending, leftHands, rightHands, effects, hands, timers>>

\* what stopTone does to the audio state
stopToneBody(st) ==
    IF st.oscRef["tone"] = 0 \/ st.gainRef["tone"] = 0 THEN st
    ELSE LET id == st.oscRef["tone"]
             g == st.gainRef["tone"]
         IN  [oscRef |-> [st.oscRef EXCEPT !["tone"] = 0],
              gainRef |-> [st.gainRef EXCEPT !["tone"] = 0],
              nodes |-> [st.nodes EXCEPT
                            ![id].stops = @ + 1,
                            ![id].stopAt = STOP_AFTER,
                            ![id].connected = FALSE,
                            ![id].disconnectAt = 0,
                            ![g].rampEnd = RELEASE,
                            ![g].gain = Gain(0, 1)],
              calls |-> st.calls \o StopCalls(id, g)]

\* onMouseLeave
stopTone ==
    /\ component = "KeyboardContinuum" /\ mounted
    /\ Apply(stopToneBody(Cur))
    /\ last' = "stopTone"
    /\ UNCHANGED <<tickVars, pitchVars, hookVars>>
    /\ UNCHANGED <<component, mounted, isModelLoading, isReady, audioContextRef,
                   resumePending, leftHands, rightHands, effects, hands, timers>>

\* what KeyboardContinuum's handleMouseMove does to the audio state
kbd_mouseMoveBody(st, event) ==
    IF st.oscRef["tone"] = 0 \/ st.gainRef["tone"] = 0 \/ ~mounted THEN st
    ELSE LET id == st.oscRef["tone"]
             g == st.gainRef["tone"]
             height == ScreenH
             clamped == Min(Max(event.y, 0), height)
             volume == Gain(height - clamped, 4 * height)
         IN  [st EXCEPT
                 !.nodes = [st.nodes EXCEPT
                               ![id].freq = kbd_getFrequencyFromX(event.x),
                               ![g].gain = volume],
                 !.calls = st.calls \o UpdateCalls(id, g)]

kbd_handleMouseMove(event) ==
    /\ component = "KeyboardContinuum" /\ mounted
    /\ Apply(kbd_mouseMoveBody(Cur, event))
    /\ last' = "handleMouseMove"
    /\ UNCHANGED <<tickVars, pitchVars, hookVars>>
    /\ UNCHANGED <<component, mounted, isModelLoading, isReady, audioContextRef,
                   resumePending, leftHands, rightHands, effects, hands, timers>>

\* the cleanup of KeyboardContinuum's unmount effect: the refs are not cleared
kbd_unmount ==
    /\ component = "KeyboardContinuum" /\ mounted
    /\ LET id == oscRef["tone"]
           g == gainRef["tone"]
           stopped == IF id = 0 THEN nodes
                      ELSE [nodes EXCEPT ![id].stops = @ + 1,
                                         ![id].stopAt = 0,
                                         ![id].connected = FALSE,
                                         ![id].disconnectAt = 0]
       IN  /\ nodes' = IF g = 0 THEN stopped
                       ELSE [stopped EXCEPT ![g].connected = FALSE,
                                            ![g].disconnectAt = 0]
           /\ calls' = (IF id = 0 THEN <<>>
                        ELSE << Call("osc.stop", id, 0), Call("osc.disconnect", id, 0) >>)
                       \o (IF g = 0 THEN <<>> ELSE << Call("gain.disconnect", g, 0) >>)
                       \o (IF audioContextRef = "none" THEN <<>>
                           ELSE << Call("audioContext.close", 0, 0) >>)
    /\ audioContextRef' = IF audioContextRef # "none" THEN "closed" ELSE audioContextRef
    /\ mounted' = FALSE
    /\ last' = "unmount"
    /\ UNCHANGED <<tickVars, pitchVars, hookVars>>
    /\ UNCHANGED <<component, isModelLoading, isReady, resumePending, oscRef, gainRef,
                   leftHands, rightHands, effects, hands, timers>>

----------------------------------------------------------------------------
(* The instrument: either component, from its mount on *)

\* no animation frame requested, no detection in flight
NoTicks ==
    /\ frameRef = 0
    /\ timeRef = FALSE
    /\ ticks = 0
    /\ inflight = {}
    /\ applied = 0

\* useAnimationFrame is not followed request by request
NoHook == requests = {} /\ props = <<>>

\* no pitch mapping under study
NoPitch == pitchIn = <<>> /\ pitchOut = <<>>

Init ==
    /\ component \in {"App", "KeyboardContinuum"}
    /\ mounted = TRUE
    /\ isModelLoading = TRUE
    /\ isReady = FALSE
    /\ audioContextRef = "none"
    /\ resumePending = 0
    /\ oscRef = [s \in Slots |-> 0]
    /\ gainRef = [s \in Slots |-> 0]
    /\ nodes = << >>
    /\ leftHands = <<>>
    /\ rightHands = <<>>
    /\ effects = <<>>
    /\ calls = <<>>
    /\ last = "mount"
    /\ NoTicks /\ NoHook /\ NoPitch
    /\ hands = <<>>
    /\ timers = 0

Next ==
    \/ modelLoaded
    \/ initAudioContext
    \/ resumeResolved
    \/ \E event \in PointerAt : handleMouseEnter(event)
    \/ handleMouseLeave
    \/ \E event \in PointerAt : handleMouseMove(event)
    \/ runDetection
    \/ rightHandsEffect
    \/ leftHandsEffect
    \/ unmount
    \/ kbd_initAudioContext
    \/ kbd_resumeResolved
    \/ \E event \in PointerAt : startTone(event)
    \/ stopTone
    \/ \E event \in PointerAt : kbd_handleMouseMove(event)
    \/ kbd_unmount

Spec == Init /\ [][Next]_vars

----------------------------------------------------------------------------
(* runDetection's list building on its own: any detector result of up to   *)
(* MaxTrackHands hands, some without the fingertip landmark; a hand's id   *)
(* is its place in the detector's result.                                  *)

\* what the detector says of one hand
TrackLabel == [handedness : {"Left", "Right"}, keypoints : {-1, 12, 13}]

TrackFrame(f) ==
    [i \in DOMAIN f |-> [handedness |-> f[i].handedness, keypoints |-> f[i].keypoints,
                         tip |-> TipOf(i), id |-> i]]

TrackFrames ==
    { TrackFrame(f) : f \in UNION { [1..n -> TrackLabel] : n \in 0..MaxTrackHands } }

InitTrack ==
    /\ component = "App"
    /\ mounted = TRUE
    /\ isModelLoading = FALSE
    /\ isReady = TRUE
    /\ audioContextRef = "running"
    /\ resumePending = 0
    /\ oscRef = [s \in Slots |-> 0]
    /\ gainRef = [s \in Slots |-> 0]
    /\ nodes = << >>
    /\ leftHands = <<>>
    /\ rightHands = <<>>
    /\ effects = <<>>
    /\ calls = <<>>
    /\ last = "estimateHands"
    /\ NoTicks /\ NoHook /\ NoPitch
    /\ hands \in TrackFrames
    /\ timers = 0

trackFrame == last = "estimateHands" /\ runDetectionOn(hands)

NextTrack ==
    \/ trackFrame
    \/ rightHandsEffect
    \/ leftHandsEffect

SpecTrack == InitTrack /\ [][NextTrack]_vars

----------------------------------------------------------------------------
(* utils/audio.ts: the helpers on one pair of refs, the slot "util".  A    *)
(* caller may invoke them in any order once it has an AudioContext.        *)

\* the variant of mapXToFreq without the two clamping tests
mapXToFreq_noClamp(x, width) ==
    LET numKeys == audio_END_NOTE - audio_START_NOTE + 1
        relativeX == x
        keyIndex == Min((relativeX * numKeys) \div width, numKeys - 1)
        note == audio_START_NOTE + keyIndex
    IN  Freq(note, relativeX * numKeys - keyIndex * width, width)

\* the variant of mapXToFreq whose key index is not limited to numKeys - 1
mapXToFreq_noIndexClamp(x, width) ==
    LET numKeys == audio_END_NOTE - audio_START_NOTE + 1
        relativeX == IF x < 0 THEN 0 ELSE IF x > width THEN width ELSE x
        keyIndex == (relativeX * numKeys) \div width
        note == audio_START_NOTE + keyIndex
    IN  Freq(note, relativeX * numKeys - keyIndex * width, width)

\* the variant of mapXToFreq that takes the position in the key as the
\* remainder relativeX % keyWidth, the way the components do
mapXToFreq_modOffset(x, width) ==
    LET numKeys == audio_END_NOTE - audio_START_NOTE + 1
        relativeX == IF x < 0 THEN 0 ELSE IF x > width THEN width ELSE x
        keyIndex == Min((relativeX * numKeys) \div width, numKeys - 1)
        note == audio_START_NOTE + keyIndex
    IN  Freq(note, JsRem(relativeX * numKeys, width), width)

mapXToFreq(x, width) ==
    LET numKeys == audio_END_NOTE - audio_START_NOTE + 1
        \* keyWidth = width / numKeys
        relativeX == IF x < 0 THEN 0 ELSE IF x > width THEN width ELSE x
        keyIndex == Min((relativeX * numKeys) \div width, numKeys - 1)
        note == audio_START_NOTE + keyIndex
    IN  Freq(note, relativeX * numKeys - keyIndex * width, width)

\* the x coordinates the caller maps to the initial frequency
UtilXs == {0, 30, 50, ScreenW}

audio_initAudioContext ==
    /\ component = "utils"
    /\ \E made \in {"suspended", "running"} :
         LET state == IF createsContext(audioContextRef) THEN made ELSE audioContextRef
         IN  /\ audioContextRef' = state
             /\ IF state = "suspended"
                THEN /\ resumePending < MaxPending
                     /\ resumePending' = resumePending + 1
                ELSE UNCHANGED resumePending
    /\ last' = "initAudioContext"
    /\ UNCHANGED <<tickVars, pitchVars, hookVars>>
    /\ calls' = ContextCalls
    /\ UNCHANGED <<oscRef, gainRef, nodes>>
    /\ UNCHANGED <<component, mounted, isModelLoading, isReady, leftHands, rightHands,
                   effects, hands, timers>>

audio_resumeResolved ==
    /\ component = "utils"
    /\ resumePending > 0
    /\ resumePending' = 0
    /\ audioContextRef' = "running"
    /\ last' = "resumeResolved"
    /\ UNCHANGED <<tickVars, pitchVars, hookVars>>
    /\ Silent
    /\ UNCHANGED <<component, mounted, isModelLoading, isReady, leftHands, rightHands,
                   effects, hands, timers>>

\* what startOscillator does to the audio state
startOscillatorBody(st, initialFreq) ==
    IF st.oscRef["util"] # 0
    THEN LET id == st.oscRef["util"]
         IN  [st EXCEPT !.nodes = [st.nodes EXCEPT ![id].freq = initialFreq],
                        !.calls = st.calls \o << Call("frequency.setValueAtTime", id, 0) >>]
    ELSE LET id == NewId(st.nodes)
         IN  [oscRef |-> [st.oscRef EXCEPT !["util"] = id],
              gainRef |-> [st.gainRef EXCEPT !["util"] = id],
              nodes |-> st.nodes @@ (id :> NewVoice("util", initialFreq, Gain(15, 100), 0)),
              calls |-> st.calls \o StartCalls(id, audio_ATTACK)]

startOscillator(initialFreq) ==
    /\ component = "utils" /\ audioContextRef # "none"
    /\ Apply(startOscillatorBody(Cur, initialFreq))
    /\ last' = "startOscillator"
    /\ UNCHANGED <<tickVars, pitchVars, hookVars>>
    /\ UNCHANGED <<component, mounted, isModelLoading, isReady, audioContextRef,
                   resumePending, leftHands, rightHands, effects, hands, timers>>

\* what stopOscillator does to the audio state, the timeout apart
stopOscillatorBody(st) ==
    IF st.oscRef["util"] = 0 \/ st.gainRef["util"] = 0 THEN st
    ELSE LET id == st.oscRef["util"]
             g == st.gainRef["util"]
         IN  [st EXCEPT
                 !.nodes = [st.nodes EXCEPT ![id].stops = @ + 1,
                                            ![id].stopAt = audio_STOP_AFTER,
                                            ![g].rampEnd = audio_RELEASE,
                                            ![g].gain = Gain(0, 1)],
                 !.calls = st.calls \o
                     << Call("gain.cancelScheduledValues", g, 0),
                        Call("gain.linearRampToValueAtTime", g, audio_RELEASE),
                        Call("osc.stop", id, audio_STOP_AFTER),
                        Call("setTimeout", id, 20) >>]

stopOscillator ==
    /\ component = "utils" /\ audioContextRef # "none"
    /\ Apply(stopOscillatorBody(Cur))
    /\ IF oscRef["util"] = 0 \/ gainRef["util"] = 0
       THEN UNCHANGED timers
       ELSE timers < MaxTimers /\ timers' = timers + 1
    /\ last' = "stopOscillator"
    /\ UNCHANGED <<tickVars, pitchVars, hookVars>>
    /\ UNCHANGED <<component, mounted, isModelLoading, isReady, audioContextRef,
                   resumePending, leftHands, rightHands, effects, hands>>

\* the callback stopOscillator hands to setTimeout
cleanupTimeout ==
    /\ component = "utils"
    /\ timers > 0
    /\ timers' = timers - 1
    /\ LET id == oscRef["util"]
           g == gainRef["util"]
           off == IF id = 0 THEN nodes
                  ELSE [nodes EXCEPT ![id].connected = FALSE, ![id].disconnectAt = 0]
       IN  Apply([oscRef |-> [oscRef EXCEPT !["util"] = 0],
                  gainRef |-> [gainRef EXCEPT !["util"] = 0],
                  nodes |-> off,
                  calls |-> (IF id = 0 THEN <<>> ELSE << Call("osc.disconnect", id, 0) >>)
                            \o (IF g = 0 THEN <<>> ELSE << Call("gain.disconnect", g, 0) >>)])
    /\ last' = "cleanupTimeout"
    /\ UNCHANGED <<tickVars, pitchVars, hookVars>>
    /\ UNCHANGED <<component, mounted, isModelLoading, isReady, audioContextRef,
                   resumePending, leftHands, rightHands, effects, hands>>

InitUtil ==
    /\ component = "utils"
    /\ mounted = TRUE
    /\ isModelLoading = TRUE
    /\ isReady = FALSE
    /\ audioContextRef = "none"
    /\ resumePending = 0
    /\ oscRef = [s \in Slots |-> 0]
    /\ gainRef = [s \in Slots |-> 0]
    /\ nodes = << >>
    /\ leftHands = <<>>
    /\ rightHands = <<>>
    /\ effects = <<>>
    /\ calls = <<>>
    /\ last = "mount"
    /\ NoTicks /\ NoHook /\ NoPitch
    /\ hands = <<>>
    /\ timers = 0

NextUtil ==
    \/ audio_initAudioContext
    \/ audio_resumeResolved
    \/ \E x \in UtilXs : startOscillator(mapXToFreq(x, ScreenW))
    \/ stopOscillator
    \/ cleanupTimeout

SpecUtil == InitUtil /\ [][NextUtil]_vars

----------------------------------------------------------------------------
(* useAnimationFrame and the asynchronous runDetection: the App from its   *)
(* mount, the browser's frames, and estimateHands calls that overlap.      *)

\* runDetection calls considered
MaxTicks == 3
\* estimateHands calls pending at once
MaxInflight == 2

\* what the video shows when a tick calls estimateHands: nothing, or one hand
TickFrames ==
    { f \in AppFrames : Len(f) <= 1 /\ \A i \in DOMAIN f : f[i].handedness = "Left" }

\* useAnimationFrame(runDetection, !isModelLoading && isReady)
shouldAnimate == ~isModelLoading /\ isReady

\* the variant of the hook's effect that requests a frame whatever shouldAnimate is
effectFrameRef_always(should) == 1

\* the hook's effect: requestAnimationFrame(animate) if shouldAnimate, else
\* cancelAnimationFrame(frameRef.current)
effectFrameRef(should) == IF should THEN 1 ELSE 0

\* the effects a commit schedules, in the order the hooks are declared, when
\* the flags become `loading` and `ready`
CommitEffects(loading, ready) ==
    (IF (~loading /\ ready) # shouldAnimate THEN <<"animation">> ELSE <<>>)
    \o (IF ready # isReady THEN <<"right", "left">> ELSE <<>>)

\* initialize() has finished: setIsModelLoading(false)
tick_modelLoaded ==
    /\ component = "App" /\ mounted /\ effects = <<>>
    /\ isModelLoading
    /\ isModelLoading' = FALSE
    /\ effects' = CommitEffects(FALSE, isReady)
    /\ last' = "modelLoaded"
    /\ Silent
    /\ UNCHANGED <<component, mounted, isReady, audioContextRef, resumePending,
                   leftHands, rightHands, hands, timers, tickVars, pitchVars, hookVars>>

\* a click whose initAudioContext runs through to setIsReady(true)
tick_audioReady ==
    /\ component = "App" /\ mounted /\ effects = <<>>
    /\ ~isReady
    /\ audioContextRef' = "running"
    /\ isReady' = TRUE
    /\ effects' = CommitEffects(isModelLoading, TRUE)
    /\ last' = "initAudioContext"
    /\ Silent
    /\ UNCHANGED <<component, mounted, isModelLoading, resumePending,
                   leftHands, rightHands, hands, timers, tickVars, pitchVars, hookVars>>

\* useEffect(..., [shouldAnimate, callback]) of useAnimationFrame
animationEffect ==
    /\ component = "App" /\ mounted
    /\ effects # <<>> /\ Head(effects) = "animation"
    /\ frameRef' = effectFrameRef(shouldAnimate)
    /\ effects' = Tail(effects)
    /\ last' = "animationEffect"
    /\ Silent
    /\ UNCHANGED <<component, mounted, isModelLoading, isReady, audioContextRef,
                   resumePending, leftHands, rightHands, hands, timers,
                   timeRef, ticks, inflight, applied, pitchVars, hookVars>>

\* a browser frame with the request pending: animate runs, calls the callback
\* unless timeRef.current is undefined, and requests the next frame.  The
\* callback, runDetection, returns at once if the video is not ready and
\* otherwise calls estimateHands on what the video shows, and is suspended.
animate ==
    /\ component = "App" /\ mounted /\ effects = <<>>
    /\ frameRef = 1
    /\ IF timeRef
       THEN /\ ticks < MaxTicks
            /\ ticks' = ticks + 1
            /\ \E videoReady \in BOOLEAN, shown \in TickFrames :
                 IF videoReady
                 THEN /\ Cardinality(inflight) < MaxInflight
                      /\ inflight' = inflight \cup {[tick |-> ticks + 1, detected |-> shown]}
                 ELSE UNCHANGED inflight
       ELSE UNCHANGED <<ticks, inflight>>
    /\ timeRef' = TRUE
    /\ frameRef' = 1
    /\ last' = "animate"
    /\ Silent
    /\ UNCHANGED <<component, mounted, isModelLoading, isReady, audioContextRef,
                   resumePending, leftHands, rightHands, effects, hands, timers,
                   applied, pitchVars, hookVars>>

\* a browser frame with no request pending: nothing of the program runs
frameDropped ==
    /\ component = "App"
    /\ frameRef = 0
    /\ last' = "frameDropped"
    /\ UNCHANGED <<component, mounted, isModelLoading, isReady, audioContextRef,
                   resumePending, oscRef, gainRef, nodes, leftHands, rightHands,
                   effects, calls, hands, timers, tickVars, pitchVars, hookVars>>

\* one of the pending estimateHands calls resolves (the detector settles the
\* order) and runDetection goes on to setLeftHands / setRightHands; on an
\* unmounted component the two sets change nothing
estimateHandsResolved ==
    /\ component = "App" /\ effects = <<>>
    /\ \E r \in inflight :
         /\ inflight' = inflight \ {r}
         /\ IF mounted
            THEN /\ leftHands' = trackedLists(r.detected).left
                 /\ rightHands' = trackedLists(r.detected).right
                 /\ applied' = r.tick
                 /\ effects' = <<"right", "left">>
            ELSE UNCHANGED <<leftHands, rightHands, applied, effects>>
    /\ last' = "runDetection"
    /\ Silent
    /\ UNCHANGED <<component, mounted, isModelLoading, isReady, audioContextRef,
                   resumePending, hands, timers, frameRef, timeRef, ticks, pitchVars, hookVars>>

\* the unmount: the hook's cleanup cancels the pending frame, the App's
\* cleanup stops every slot and closes the context
tick_unmount ==
    /\ component = "App" /\ mounted /\ effects = <<>>
    /\ Apply(closeContext(cleanupStops(stopAudioNode(Cur, "mouse"), 0)))
    /\ audioContextRef' = IF audioContextRef \notin {"none", "closed"} THEN "closed"
                          ELSE audioContextRef
    /\ mounted' = FALSE
    /\ frameRef' = 0
    /\ last' = "unmount"
    /\ UNCHANGED <<component, isModelLoading, isReady, resumePending,
                   leftHands, rightHands, effects, hands, timers,
                   timeRef, ticks, inflight, applied, pitchVars, hookVars>>

InitTick ==
    /\ component = "App"
    /\ mounted = TRUE
    /\ isModelLoading = TRUE
    /\ isReady = FALSE
    /\ audioContextRef = "none"
    /\ resumePending = 0
    /\ oscRef = [s \in Slots |-> 0]
    /\ gainRef = [s \in Slots |-> 0]
    /\ nodes = << >>
    /\ leftHands = <<>>
    /\ rightHands = <<>>
    /\ effects = <<"animation", "right", "left">>
    /\ calls = <<>>
    /\ last = "mount"
    /\ hands = <<>>
    /\ timers = 0
    /\ NoTicks /\ NoHook /\ NoPitch

NextTick ==
    \/ tick_modelLoaded
    \/ tick_audioReady
    \/ animationEffect
    \/ animate
    \/ frameDropped
    \/ estimateHandsResolved
    \/ rightHandsEffect
    \/ leftHandsEffect
    \/ tick_unmount

SpecTick == InitTick /\ [][NextTick]_vars

----------------------------------------------------------------------------
(* The pointer resting on the surface: either component right after a      *)
(* pointer enter that came before the audio was ready, with no leave and   *)
(* no further enter from then on.                                          *)

InitMissed ==
    /\ component \in {"App", "KeyboardContinuum"}
    /\ mounted = TRUE
    /\ isModelLoading = TRUE
    /\ isReady = FALSE
    /\ audioContextRef = "none"
    /\ resumePending = 0
    /\ oscRef = [s \in Slots |-> 0]
    /\ gainRef = [s \in Slots |-> 0]
    /\ nodes = << >>
    /\ leftHands = <<>>
    /\ rightHands = <<>>
    /\ effects = <<>>
    /\ calls = <<>>
    /\ last = (IF component = "App" THEN "handleMouseEnter" ELSE "startTone")
    /\ hands = <<>>
    /\ timers = 0
    /\ NoTicks /\ NoHook /\ NoPitch

NextMissed ==
    \/ modelLoaded
    \/ initAudioContext
    \/ resumeResolved
    \/ \E event \in PointerAt : handleMouseMove(event)
    \/ runDetection
    \/ rightHandsEffect
    \/ leftHandsEffect
    \/ kbd_initAudioContext
    \/ kbd_resumeResolved
    \/ \E event \in PointerAt : kbd_handleMouseMove(event)

SpecMissed == InitMissed /\ [][NextMissed]_vars

----------------------------------------------------------------------------
(* The pitch mappings on their own: one call of one of the four mappings   *)
(* on an x in or around the surface.                                       *)

\* how far beyond either edge of the surface an x is taken
PitchMargin == 2

\* the widths mapXToFreq is called with
PitchWidths == {1, 48, ScreenW}

PitchXs == (0 - PitchMargin)..(ScreenW + PitchMargin)

PitchInputs ==
    { [fn |-> "mapXToFreq", x |-> x, width |-> w] : x \in PitchXs, w \in PitchWidths }
    \cup { [fn |-> f, x |-> x, width |-> ScreenW] :
             f \in {"getFrequencyFromX", "handleMouseMove", "kbd_getFrequencyFromX"},
             x \in PitchXs }

\* the variables one call of a mapping leaves alone
pitchFrame == <<component, mounted, isModelLoading, isReady, audioContextRef,
                resumePending, oscRef, gainRef, nodes, leftHands, rightHands,
                effects, calls, hands, timers, tickVars, pitchIn, hookVars>>

call_mapXToFreq ==
    /\ component = "pitch"
    /\ pitchIn.fn = "mapXToFreq" /\ pitchOut = <<>>
    /\ pitchOut' = <<mapXToFreq(pitchIn.x, pitchIn.width)>>
    /\ last' = "mapXToFreq"
    /\ UNCHANGED pitchFrame

call_getFrequencyFromX ==
    /\ component = "pitch"
    /\ pitchIn.fn = "getFrequencyFromX" /\ pitchOut = <<>>
    /\ pitchOut' = <<getFrequencyFromX(pitchIn.x)>>
    /\ last' = "getFrequencyFromX"
    /\ UNCHANGED pitchFrame

call_handleMouseMove ==
    /\ component = "pitch"
    /\ pitchIn.fn = "handleMouseMove" /\ pitchOut = <<>>
    /\ pitchOut' = <<mouseMoveFrequency(pitchIn.x)>>
    /\ last' = "handleMouseMove"
    /\ UNCHANGED pitchFrame

call_kbd_getFrequencyFromX ==
    /\ component = "pitch"
    /\ pitchIn.fn = "kbd_getFrequencyFromX" /\ pitchOut = <<>>
    /\ pitchOut' = <<kbd_getFrequencyFromX(pitchIn.x)>>
    /\ last' = "kbd_getFrequencyFromX"
    /\ UNCHANGED pitchFrame

InitPitch ==
    /\ component = "pitch"
    /\ mounted = TRUE
    /\ isModelLoading = FALSE
    /\ isReady = TRUE
    /\ audioContextRef = "running"
    /\ resumePending = 0
    /\ oscRef = [s \in Slots |-> 0]
    /\ gainRef = [s \in Slots |-> 0]
    /\ nodes = << >>
    /\ leftHands = <<>>
    /\ rightHands = <<>>
    /\ effects = <<>>
    /\ calls = <<>>
    /\ last = "mount"
    /\ hands = <<>>
    /\ timers = 0
    /\ NoTicks /\ NoHook
    /\ pitchIn \in PitchInputs
    /\ pitchOut = <<>>

NextPitch ==
    \/ call_mapXToFreq
    \/ call_getFrequencyFromX
    \/ call_handleMouseMove
    \/ call_kbd_getFrequencyFromX

SpecPitch == InitPitch /\ [][NextPitch]_vars

----------------------------------------------------------------------------
(* Two calls of mapXToFreq with the same width, at x and then at x2.       *)

PairInputs ==
    { [fn |-> "mapXToFreq", x |-> x, x2 |-> x2, width |-> w] :
        x \in PitchXs, x2 \in PitchXs, w \in PitchWidths }

pair_first ==
    /\ component = "pitchPair"
    /\ pitchOut = <<>>
    /\ pitchOut' = <<mapXToFreq(pitchIn.x, pitchIn.width)>>
    /\ last' = "mapXToFreq"
    /\ UNCHANGED pitchFrame

pair_second ==
    /\ component = "pitchPair"
    /\ Len(pitchOut) = 1
    /\ pitchOut' = Append(pitchOut, mapXToFreq(pitchIn.x2, pitchIn.width))
    /\ last' = "mapXToFreq"
    /\ UNCHANGED pitchFrame

InitPair ==
    /\ component = "pitchPair"
    /\ mounted = TRUE
    /\ isModelLoading = FALSE
    /\ isReady = TRUE
    /\ audioContextRef = "running"
    /\ resumePending = 0
    /\ oscRef = [s \in Slots |-> 0]
    /\ gainRef = [s \in Slots |-> 0]
    /\ nodes = << >>
    /\ leftHands = <<>>
    /\ rightHands = <<>>
    /\ effects = <<>>
    /\ calls = <<>>
    /\ last = "mount"
    /\ hands = <<>>
    /\ timers = 0
    /\ NoTicks /\ NoHook
    /\ pitchIn \in PairInputs
    /\ pitchOut = <<>>

NextPair ==
    \/ pair_first
    \/ pair_second

SpecPair == InitPair /\ [][NextPair]_vars

----------------------------------------------------------------------------
(* The volume of the App's voices for a y in or around the canvas: the     *)
(* pointer enters at y and moves to y2, a hand is seen at y and then at    *)
(* y2, in any order and any number of times.                               *)

\* how far above and below the canvas a y is taken
VolumeMargin == 2

VolumeYs == (0 - VolumeMargin)..(ScreenH + VolumeMargin)

VolumeInputs == { [fn |-> "getVolumeFromY", y |-> y, y2 |-> y2] : y, y2 \in VolumeYs }

\* a pointer event at height y
VolumeEvent(y) == [x |-> 10, y |-> y]

\* a detector result with one hand whose fingertip is at height y (a hand the
\* detector labels "Left" is tracked in the right list)
VolumeFrame(y) ==
    << [handedness |-> "Left", keypoints |-> 21, tip |-> [x |-> 10, y |-> y], id |-> 1] >>

\* one animation frame: the hand is at y, at y2 or out of view
volume_runDetection ==
    \E detected \in {VolumeFrame(pitchIn.y), VolumeFrame(pitchIn.y2), <<>>} :
        runDetectionOn(detected)

InitVolume ==
    /\ component = "App"
    /\ mounted = TRUE
    /\ isModelLoading = FALSE
    /\ isReady = TRUE
    /\ audioContextRef = "running"
    /\ resumePending = 0
    /\ oscRef = [s \in Slots |-> 0]
    /\ gainRef = [s \in Slots |-> 0]
    /\ nodes = << >>
    /\ leftHands = <<>>
    /\ rightHands = <<>>
    /\ effects = <<>>
    /\ calls = <<>>
    /\ last = "mount"
    /\ hands = <<>>
    /\ timers = 0
    /\ NoTicks /\ NoHook
    /\ pitchIn \in VolumeInputs
    /\ pitchOut = <<>>

NextVolume ==
    \/ handleMouseEnter(VolumeEvent(pitchIn.y))
    \/ handleMouseMove(VolumeEvent(pitchIn.y2))
    \/ handleMouseLeave
    \/ volume_runDetection
    \/ rightHandsEffect
    \/ leftHandsEffect

SpecVolume == InitVolume /\ [][NextVolume]_vars

----------------------------------------------------------------------------
(* The pointer over the App's keyboard surface at one position: it enters, *)
(* moves (a mousemove at the position it entered at) and leaves.           *)

\* the positions inside the surface
PointerInputs ==
    { [fn |-> "pointer", x |-> x, y |-> y] :
        x \in KeyboardLeft..(KeyboardLeft + ScreenW - 1), y \in {0, 30} }

PointerEvent == [x |-> pitchIn.x, y |-> pitchIn.y]

InitPointer ==
    /\ component = "App"
    /\ mounted = TRUE
    /\ isModelLoading = FALSE
    /\ isReady = TRUE
    /\ audioContextRef = "running"
    /\ resumePending = 0
    /\ oscRef = [s \in Slots |-> 0]
    /\ gainRef = [s \in Slots |-> 0]
    /\ nodes = << >>
    /\ leftHands = <<>>
    /\ rightHands = <<>>
    /\ effects = <<>>
    /\ calls = <<>>
    /\ last = "mount"
    /\ hands = <<>>
    /\ timers = 0
    /\ NoTicks /\ NoHook
    /\ pitchIn \in PointerInputs
    /\ pitchOut = <<>>

NextPointer ==
    \/ handleMouseEnter(PointerEvent)
    \/ handleMouseMove(PointerEvent)
    \/ handleMouseLeave

SpecPointer == InitPointer /\ [][NextPointer]_vars

----------------------------------------------------------------------------
(* useAnimationFrame on its own, under a host that re-renders it with any  *)
(* shouldAnimate and callback.  frameRef holds the id of the last request  *)
(* (0 before the first), requests the ids still pending, ticks counts the  *)
(* invocations of the callback.  An effect and its cleanup are deferred    *)
(* until the browser has painted the commit: the frame of that paint may   *)
(* run between a commit and the effect it scheduled, a second one not.     *)

\* requestAnimationFrame calls considered
MaxRequests == 4

\* the values of the hook's arguments: shouldAnimate and the callback's identity
HookProps == [shouldAnimate : BOOLEAN, callback : {"f", "g"}]

cancelAnimationFrame(reqs, id) == reqs \ {id}

\* the variant of the effect's cleanup that cancels nothing
effectCleanup_missing(reqs, id) == reqs

\* return () => cancelAnimationFrame(frameRef.current)
effectCleanup(reqs, id) == cancelAnimationFrame(reqs, id)

\* a render whose shouldAnimate or callback differs from the last one's: the
\* commit schedules the cleanup of the last effect and the effect
hook_render ==
    /\ component = "hook" /\ mounted /\ effects = <<>>
    /\ \E p \in HookProps : p # props /\ props' = p
    /\ effects' = <<"animation">>
    /\ last' = "render"
    /\ Silent
    /\ UNCHANGED <<component, mounted, isModelLoading, isReady, audioContextRef,
                   resumePending, leftHands, rightHands, hands, timers, tickVars,
                   pitchVars, requests>>

\* the deferred effect runs: the cleanup of the previous run (none on mount,
\* where frameRef.current is 0 and names no request), then the effect
hook_effect ==
    /\ component = "hook" /\ mounted
    /\ effects # <<>> /\ Head(effects) = "animation"
    /\ LET cleaned == effectCleanup(requests, frameRef)
       IN  IF props.shouldAnimate
           THEN /\ frameRef < MaxRequests
                /\ frameRef' = frameRef + 1
                /\ requests' = cleaned \cup {frameRef + 1}
           ELSE /\ requests' = cancelAnimationFrame(cleaned, frameRef)
                /\ UNCHANGED frameRef
    /\ effects' = Tail(effects)
    /\ last' = "effect"
    /\ Silent
    /\ UNCHANGED <<component, mounted, isModelLoading, isReady, audioContextRef,
                   resumePending, leftHands, rightHands, hands, timers,
                   timeRef, ticks, inflight, applied, pitchVars, props>>

\* a display frame: every pending request runs animate, which invokes the
\* callback unless timeRef.current is undefined, sets timeRef.current and
\* requests the next frame
hook_frame ==
    /\ component = "hook"
    /\ requests # {}
    /\ effects = <<>> \/ last # "animate"
    /\ LET n == Cardinality(requests)
       IN  /\ frameRef + n <= MaxRequests
           /\ ticks' = ticks + (IF timeRef THEN n ELSE n - 1)
           /\ requests' = (frameRef + 1)..(frameRef + n)
           /\ frameRef' = frameRef + n
    /\ timeRef' = TRUE
    /\ last' = "animate"
    /\ Silent
    /\ UNCHANGED <<component, mounted, isModelLoading, isReady, audioContextRef,
                   resumePending, leftHands, rightHands, effects, hands, timers,
                   inflight, applied, pitchVars, props>>

\* the component unmounts: the commit schedules the effect's cleanup
hook_unmount ==
    /\ component = "hook" /\ mounted /\ effects = <<>>
    /\ mounted' = FALSE
    /\ effects' = <<"cleanup">>
    /\ last' = "unmount"
    /\ Silent
    /\ UNCHANGED <<component, isModelLoading, isReady, audioContextRef,
                   resumePending, leftHands, rightHands, hands, timers, tickVars,
                   pitchVars, hookVars>>

\* the deferred cleanup of the unmount runs
hook_cleanup ==
    /\ component = "hook" /\ ~mounted
    /\ effects # <<>> /\ Head(effects) = "cleanup"
    /\ requests' = effectCleanup(requests, frameRef)
    /\ effects' = Tail(effects)
    /\ last' = "cleanup"
    /\ Silent
    /\ UNCHANGED <<component, mounted, isModelLoading, isReady, audioContextRef,
                   resumePending, leftHands, rightHands, hands, timers, tickVars,
                   pitchVars, props>>

InitHook ==
    /\ component = "hook"
    /\ mounted = TRUE
    /\ isModelLoading = FALSE
    /\ isReady = FALSE
    /\ audioContextRef = "none"
    /\ resumePending = 0
    /\ oscRef = [s \in Slots |-> 0]
    /\ gainRef = [s \in Slots |-> 0]
    /\ nodes = << >>
    /\ leftHands = <<>>
    /\ rightHands = <<>>
    /\ effects = <<"animation">>
    /\ calls = <<>>
    /\ last = "mount"
    /\ hands = <<>>
    /\ timers = 0
    /\ NoTicks /\ NoPitch
    /\ requests = {}
    /\ props \in HookProps

NextHook ==
    \/ hook_render
    \/ hook_effect
    \/ hook_frame
    \/ hook_unmount
    \/ hook_cleanup

SpecHook == InitHook /\ [][NextHook]_vars

----------------------------------------------------------------------------
(* Properties *)

\* the voices of a slot that sound into the destination
SoundingAt(s) == { id \in DOMAIN nodes : nodes[id].slot = s /\ nodes[id].connected }

SideSlots(slots) == { slots[i] : i \in 1..MAX_SIDE }

HasCall(api) == \E k \in DOMAIN calls : calls[k].api = api

\* C1: in the hand-tracking App each of the 7 slots (pointer, 3 right, 3 left)
\* carries at most one sounding voice, the one its refs hold; so at most 7
\* voices sound at once and at most 3 per side, whatever the events were.
C1_OneVoicePerSlot ==
    component = "App" =>
        /\ \A s \in AppSlots : Cardinality(SoundingAt(s)) <= 1
        /\ \A id \in DOMAIN nodes : nodes[id].connected => nodes[id].slot \in AppSlots
        /\ Cardinality({ id \in DOMAIN nodes : nodes[id].connected }) <= 7
        /\ Cardinality(UNION { SoundingAt(s) : s \in SideSlots(RightSlots) }) <= 3
        /\ Cardinality(UNION { SoundingAt(s) : s \in SideSlots(LeftSlots) }) <= 3
        /\ \A s \in AppSlots :
             oscRef[s] # 0 => oscRef[s] \in SoundingAt(s) /\ gainRef[s] = oscRef[s]

\* the pointer entered a surface whose slot already held a voice: nothing was created
C1_Witness ==
    /\ component = "App" /\ isReady /\ last = "handleMouseEnter"
    /\ oscRef["mouse"] # 0 /\ calls = <<>>

\* what the table prescribes for index i of a side, as Web Audio calls
TableCalls(list, slots, i) ==
    LET s == slots[i]
    IN  IF i <= Len(list)
        THEN IF oscRef[s] = 0 THEN StartCalls(oscRef'[s], ATTACK)
             ELSE UpdateCalls(oscRef[s], gainRef[s])
        ELSE IF oscRef[s] # 0 THEN StopCalls(oscRef[s], gainRef[s])
             ELSE <<>>

\* what the table prescribes for the slot of index i of a side
TableSlot(list, slots, i) ==
    LET s == slots[i]
    IN  IF i <= Len(list)
        THEN IF oscRef[s] = 0 THEN oscRef'[s] # 0 /\ oscRef'[s] \notin DOMAIN nodes
             ELSE oscRef'[s] = oscRef[s]
        ELSE oscRef'[s] = 0

\* a step that runs the reconcile effect at the head of the queue, audio ready
EffectStep ==
    /\ component = "App" /\ mounted /\ isReady
    /\ effects # <<>> /\ effects' = Tail(effects)

\* C2: a run of a side's reconcile effect does, for each index 0..2 in turn,
\* exactly what the table says: point and idle slot -> start, point and
\* sounding slot -> update, no point and occupied slot -> stop, else nothing.
C2_ReconcileTable ==
    [][ EffectStep =>
          LET list == IF Head(effects) = "right" THEN rightHands ELSE leftHands
              slots == IF Head(effects) = "right" THEN RightSlots ELSE LeftSlots
          IN  /\ calls' = TableCalls(list, slots, 1) \o TableCalls(list, slots, 2)
                          \o TableCalls(list, slots, 3)
              /\ \A i \in 1..MAX_SIDE : TableSlot(list, slots, i) ]_vars

\* an effect run that updated one slot and stopped another
C2_Witness ==
    /\ last \in {"rightHandsEffect", "leftHandsEffect"}
    /\ HasCall("frequency.exponentialRampToValueAtTime")
    /\ HasCall("osc.stop")

\* the voice of slot i of a side was started for the hand now at index i
StartedForTracked(list, slots) ==
    \A i \in 1..MAX_SIDE :
        (i <= Len(list) /\ oscRef[slots[i]] # 0)
            => nodes[oscRef[slots[i]]].src = list[i].id

\* C3: once the effects have run, the voice held by a hand slot follows the
\* physical hand it was started for: a slot's voice is never passed on to
\* another hand without a stop in between.
C3_NoHandOverWithoutStop ==
    (component = "App" /\ mounted /\ effects = <<>>) =>
        /\ StartedForTracked(rightHands, RightSlots)
        /\ StartedForTracked(leftHands, LeftSlots)

\* C4: a release cancels the pending ramps, ramps the gain to 0, schedules the
\* oscillator's stop after the end of the ramp and disconnects the two nodes
\* no earlier than that stop (stopAudioNode, stopTone).
C4_DisconnectAfterStop ==
    (component = "App" \/ last = "stopTone") =>
        \A k \in DOMAIN calls :
            calls[k].api = "osc.stop" =>
                /\ k > 2
                /\ calls[k - 2].api = "gain.cancelScheduledValues"
                /\ calls[k - 1].api = "gain.linearRampToValueAtTime"
                /\ calls[k - 1].at < calls[k].at
                /\ \A j \in DOMAIN calls :
                     (calls[j].api \in {"osc.disconnect", "gain.disconnect"}
                        /\ calls[j].node = calls[k].node)
                     => j > k /\ calls[j].at >= calls[k].at

\* C5: a stop on a slot that holds no voice does nothing, and an oscillator's
\* stop is scheduled at most once: whenever a handler calls OscillatorNode.stop
\* the oscillator had not been stopped before and is stopped once by the handler.
C5_StopOnce ==
    [][ /\ \A k \in DOMAIN calls' :
             calls'[k].api = "osc.stop" =>
                /\ calls'[k].node \in DOMAIN nodes
                /\ nodes[calls'[k].node].stops = 0
                /\ \A j \in DOMAIN calls' :
                     (calls'[j].api = "osc.stop" /\ calls'[j].node = calls'[k].node)
                        => j = k
        /\ (last' = "handleMouseLeave" /\ oscRef["mouse"] = 0)
             => calls' = <<>> /\ UNCHANGED <<oscRef, gainRef, nodes>>
        /\ (last' = "stopTone" /\ oscRef["tone"] = 0)
             => calls' = <<>> /\ UNCHANGED <<oscRef, gainRef, nodes>> ]_vars

\* the pointer left a surface whose slot held no voice
C5_Witness ==
    /\ component = "App" /\ isReady /\ audioContextRef = "running"
    /\ last = "handleMouseLeave" /\ calls = <<>> /\ oscRef["mouse"] = 0

\* C6: stopOscillator on a voice that is releasing (stopped, its cleanup
\* timeout still pending) schedules nothing: no ramp, no stop, no timeout.
C6_StopWhileReleasingIsNoOp ==
    [][ (/\ last' = "stopOscillator"
         /\ timers > 0
         /\ oscRef["util"] # 0
         /\ nodes[oscRef["util"]].stops > 0)
        => (calls' = <<>> /\ timers' = timers /\ UNCHANGED <<oscRef, gainRef, nodes>>) ]_vars

\* C7: an update of a slot that holds no voice is ignored: the pointer moving
\* over the surface of either component while its slot is idle issues no Web
\* Audio call and leaves every ref and every voice as it was.
C7_UpdateOnIdleIgnored ==
    [][ (/\ last' = "handleMouseMove"
         /\ \/ component = "App" /\ oscRef["mouse"] = 0
            \/ component = "KeyboardContinuum" /\ oscRef["tone"] = 0)
        => (calls' = <<>> /\ UNCHANGED <<oscRef, gainRef, nodes>>) ]_vars

\* the pointer moved over the ready App while the pointer slot was idle
C7_Witness ==
    /\ component = "App" /\ isReady /\ audioContextRef = "running"
    /\ last = "handleMouseMove" /\ oscRef["mouse"] = 0 /\ calls = <<>>

\* the updates a second run issues for the points of a list
RECURSIVE UpdatesOnly(_, _, _, _)
UpdatesOnly(st, list, slots, i) ==
    IF i > Min(MAX_SIDE, Len(list)) THEN <<>>
    ELSE UpdateCalls(st.oscRef[slots[i]], st.gainRef[slots[i]])
         \o UpdatesOnly(st, list, slots, i + 1)

Idempotent(list, slots) ==
    LET once == reconcile(Cur, list, slots, 0)
        again == reconcile([once EXCEPT !.calls = <<>>], list, slots, 0)
    IN  /\ again.oscRef = once.oscRef
        /\ again.gainRef = once.gainRef
        /\ again.nodes = once.nodes
        /\ again.calls = UpdatesOnly(once, list, slots, 1)

\* C8: reconciling a side twice with the same list gives what reconciling it
\* once gives: the same slots occupied by the same voices with the same target
\* frequency and gain; the second run only updates the slots of the points.
C8_ReconcileIdempotent ==
    (component = "App" /\ mounted /\ isReady) =>
        /\ Idempotent(rightHands, RightSlots)
        /\ Idempotent(leftHands, LeftSlots)

\* an effect run on a list whose slots all sounded already, for the same hands
C8_Witness ==
    /\ component = "App" /\ last = "leftHandsEffect" /\ Len(leftHands) > 0
    /\ calls = UpdatesOnly(Cur, leftHands, LeftSlots, 1)
    /\ StartedForTracked(leftHands, LeftSlots)

\* the hands of the frame with the fingertip landmark and the given label
\* (a hand's id is its place in the detector's result)
LabelledIds(label) ==
    { i \in DOMAIN hands : hands[i].keypoints >= 13 /\ hands[i].handedness = label }

\* the n first of a set of places
FirstOf(S, n) == { i \in S : Cardinality({ j \in S : j < i }) < n }

Ids(list) == { list[k].id : k \in DOMAIN list }

FirstThree(list, label) ==
    /\ Len(list) = Min(3, Cardinality(LabelledIds(label)))
    /\ Ids(list) = FirstOf(LabelledIds(label), 3)
    /\ \A k \in 1..(Len(list) - 1) : list[k].id < list[k + 1].id
    /\ \A k \in DOMAIN list : /\ list[k].x = hands[list[k].id].tip.x
                              /\ list[k].y = hands[list[k].id].tip.y

\* C9: each tracked list is the first min(3, k) valid points of its side in
\* the detector's order, and no voice is ever started for a later point.
C9_FirstThreeInArrivalOrder ==
    last # "estimateHands" =>
        /\ FirstThree(leftHands, "Right")
        /\ FirstThree(rightHands, "Left")
        /\ \A id \in DOMAIN nodes :
             nodes[id].src \in FirstOf(LabelledIds("Right"), 3)
                               \cup FirstOf(LabelledIds("Left"), 3)

\* a frame with four valid hands of one side, after both effects have run
C9_Witness ==
    /\ last = "leftHandsEffect"
    /\ Cardinality(LabelledIds("Right")) >= 4
    /\ Len(leftHands) = 3
    /\ \A i \in 1..3 : oscRef[LeftSlots[i]] # 0

\* C10: a hand the detector labels "Right" is put in the left list only and a
\* hand labelled "Left" in the right list only; no hand is in both lists.
C10_Mirrored ==
    last # "estimateHands" =>
        /\ \A k \in DOMAIN leftHands : hands[leftHands[k].id].handedness = "Right"
        /\ \A k \in DOMAIN rightHands : hands[rightHands[k].id].handedness = "Left"
        /\ Ids(leftHands) \cap Ids(rightHands) = {}
        /\ FirstOf(LabelledIds("Right"), 3) \subseteq Ids(leftHands)
        /\ FirstOf(LabelledIds("Left"), 3) \subseteq Ids(rightHands)

\* a frame with valid hands of both labels has been tracked
C10_Witness ==
    /\ last = "runDetection" /\ hands # <<>>
    /\ Len(leftHands) > 0 /\ Len(rightHands) > 0

\* a detected hand whose keypoint array is missing or has no index 12
Malformed(hand) == hand.keypoints < 13

\* the frame without its malformed hands
WellFormedHands == SelectSeq(hands, LAMBDA hand : ~Malformed(hand))

\* C11: a hand without landmark 12 is dropped on its own: it is in neither
\* list, and the lists (and the voices started from them) are those of the
\* frame with the malformed hands taken out.
C11_MalformedDroppedAlone ==
    last # "estimateHands" =>
        /\ \A k \in DOMAIN leftHands : ~Malformed(hands[leftHands[k].id])
        /\ \A k \in DOMAIN rightHands : ~Malformed(hands[rightHands[k].id])
        /\ leftHands = trackedLists(WellFormedHands).left
        /\ rightHands = trackedLists(WellFormedHands).right
        /\ Len(leftHands) = Min(3, Cardinality(LabelledIds("Right")))
        /\ Len(rightHands) = Min(3, Cardinality(LabelledIds("Left")))
        /\ \A id \in DOMAIN nodes : ~Malformed(hands[nodes[id].src])

\* a frame whose first two hands are malformed and whose third hand sounds
C11_Witness ==
    /\ last = "leftHandsEffect"
    /\ Len(hands) >= 3
    /\ Malformed(hands[1]) /\ Malformed(hands[2])
    /\ \E id \in DOMAIN nodes : nodes[id].src = 3 /\ nodes[id].connected

\* everything but the name of the last handler
allButLast ==
    <<component, mounted, isModelLoading, isReady, audioContextRef, resumePending,
      oscRef, gainRef, nodes, leftHands, rightHands, effects, calls, hands, timers,
      tickVars, pitchVars, hookVars>>

\* C12: runDetection is called only by an animation frame that elapses while
\* the model is loaded and the audio is ready; while either flag is false no
\* frame is requested, a frame that elapses leaves nothing behind, and nothing
\* is called or pending at the moment both flags become satisfied.
C12_NoTickUnlessAnimating ==
    [][ /\ ticks' # ticks =>
              /\ ~isModelLoading /\ isReady
              /\ frameRef = 1 /\ last' = "animate"
              /\ ticks' = ticks + 1
        /\ ~(inflight' \subseteq inflight) => (~isModelLoading /\ isReady)
        /\ (isModelLoading \/ ~isReady) => (frameRef = 0 /\ ticks = 0 /\ inflight = {})
        /\ (last' = "frameDropped" /\ (isModelLoading \/ ~isReady)) => UNCHANGED allButLast
        /\ (~shouldAnimate /\ shouldAnimate') => (ticks' = 0 /\ inflight' = {}) ]_vars

\* a frame elapsed while the model was loaded but the audio not ready
C12_Witness ==
    /\ last = "frameDropped" /\ mounted
    /\ ~isModelLoading /\ ~isReady
    /\ ticks = 0 /\ inflight = {}

\* C13: the lists of an earlier tick are never applied after the lists of a
\* later tick.
C13_TickOrder == [][applied' >= applied]_vars

\* the calls cs hold the ramped release of voice id: its gain ramped over the
\* release window and its oscillator's stop scheduled for no earlier than that
RampedRelease(cs, id) ==
    \E k \in DOMAIN cs :
        /\ cs[k].api = "osc.stop" /\ cs[k].node = id
        /\ k > 1
        /\ cs[k - 1].api = "gain.linearRampToValueAtTime" /\ cs[k - 1].node = id
        /\ cs[k - 1].at > 0
        /\ cs[k].at >= cs[k - 1].at

Closes(cs) == { k \in DOMAIN cs : cs[k].api = "audioContext.close" }

\* C14: the unmount of either component releases every occupied slot with the
\* ramp of stop(), leaves no slot holding a voice, and closes the context,
\* once and after the stops.
C14_TeardownReleases ==
    [][ (mounted /\ ~mounted') =>
          /\ \A s \in Slots : oscRef[s] # 0 => RampedRelease(calls', oscRef[s])
          /\ \A s \in Slots : oscRef'[s] = 0 /\ gainRef'[s] = 0
          /\ audioContextRef # "none" =>
                /\ audioContextRef' = "closed"
                /\ Cardinality(Closes(calls')) = 1
                /\ \A k \in Closes(calls') : k = Len(calls') ]_vars

\* the handlers of pointer events and of hand frames
InputHandlers ==
    {"handleMouseEnter", "handleMouseLeave", "handleMouseMove", "startTone",
     "stopTone", "runDetection", "rightHandsEffect", "leftHandsEffect"}

\* C15: while isReady is false no slot holds a voice and no voice exists, and
\* a pointer enter, move or leave or a hand frame issues no Web Audio call and
\* leaves every slot as it was.
C15_InertBeforeReady ==
    [][ ~isReady =>
          /\ \A s \in Slots : oscRef[s] = 0 /\ gainRef[s] = 0
          /\ nodes = << >>
          /\ last' \in InputHandlers =>
                (calls' = <<>> /\ UNCHANGED <<oscRef, gainRef, nodes>>) ]_vars

\* the pointer entered the surface while the context existed, still suspended
C15_Witness ==
    /\ component = "App" /\ mounted /\ ~isReady
    /\ audioContextRef = "suspended" /\ resumePending > 0
    /\ last = "handleMouseEnter" /\ calls = <<>> /\ oscRef["mouse"] = 0

\* every point of a list has a voice in its slot
PointsSound(list, slots) ==
    \A i \in 1..Min(MAX_SIDE, Len(list)) : oscRef[slots[i]] # 0

\* C16: after an enter that was ignored for want of a ready context, the first
\* pointer move once the audio is ready makes the pointer slot sound, and once
\* the effects of a frame have run every tracked hand point sounds.
C16_MissedStartRecovers ==
    [][ /\ (last' = "handleMouseMove" /\ mounted /\ isReady /\ audioContextRef = "running")
            => oscRef'[IF component = "App" THEN "mouse" ELSE "tone"] # 0
        /\ (component = "App" /\ isReady /\ effects = <<>>)
            => (PointsSound(rightHands, RightSlots) /\ PointsSound(leftHands, LeftSlots))
      ]_vars

Constructions(cs) == { k \in DOMAIN cs : cs[k].api = "new AudioContext" }

\* C17: an AudioContext is constructed only by an activation of
\* initAudioContext that finds no context, one per activation; a context, once
\* made, is never replaced: the ref is never emptied and no later activation,
\* even with resume() pending, constructs another.
C17_OneContext ==
    [][ /\ Constructions(calls') # {} =>
              /\ audioContextRef = "none"
              /\ last' = "initAudioContext"
              /\ Cardinality(Constructions(calls')) = 1
        /\ audioContextRef # "none" =>
              /\ audioContextRef' # "none"
              /\ Constructions(calls') = {} ]_vars

\* a second activation while the resume() of the first is pending
C17_Witness ==
    /\ last = "initAudioContext" /\ mounted
    /\ audioContextRef = "suspended" /\ resumePending > 1
    /\ calls = <<>>

\* C18: the context is made and resume() is called only by initAudioContext,
\* which only a click starts (surface click or Start button); the context goes
\* from suspended to running only when that resume() settles.  No frame, no
\* effect and no pointer enter, move or leave does either.
C18_ResumeOnlyOnClick ==
    [][ /\ (audioContextRef = "none" /\ audioContextRef' # "none")
              => last' = "initAudioContext"
        /\ resumePending' > resumePending => last' = "initAudioContext"
        /\ (audioContextRef = "suspended" /\ audioContextRef' = "running")
              => (last' = "resumeResolved" /\ resumePending > 0)
        /\ last' \in InputHandlers =>
              UNCHANGED <<audioContextRef, resumePending>> ]_vars

\* a click made the context, suspended, and awaits its resume()
C18_Witness ==
    /\ last = "initAudioContext" /\ mounted
    /\ audioContextRef = "suspended" /\ resumePending = 1
    /\ Constructions(calls) # {}

\* C19: mapXToFreq never extrapolates: whatever x (left of 0 and right of
\* width included) and width > 0, the note is one of START_NOTE..END_NOTE and
\* the position in the key is in [0, 1], so the frequency is between
\* freq(START_NOTE) and freq(END_NOTE + 1); an x <= 0 gives freq(START_NOTE).
C19_MapXToFreqClamped ==
    (pitchIn # <<>> /\ pitchOut # <<>> /\ pitchIn.fn = "mapXToFreq") =>
        LET f == pitchOut[1]
        IN  /\ f.note >= audio_START_NOTE /\ f.note <= audio_END_NOTE
            /\ f.den > 0 /\ f.num >= 0 /\ f.num <= f.den
            /\ pitchIn.x <= 0 => (f.note = audio_START_NOTE /\ f.num = 0)
            /\ pitchIn.x >= pitchIn.width => (f.note = audio_END_NOTE /\ f.num = f.den)

\* mapXToFreq was called with an x right of the surface
C19_Witness ==
    /\ pitchIn # <<>> /\ pitchOut # <<>> /\ pitchIn.fn = "mapXToFreq"
    /\ pitchIn.x > pitchIn.width /\ pitchIn.width = 48
    /\ pitchOut[1].note = audio_END_NOTE

\* the x a mapping of the components is given: any x for a hand point, an x
\* over the surface for the pointer
ComponentX ==
    \/ pitchIn.fn = "getFrequencyFromX"
    \/ /\ pitchIn.fn \in {"handleMouseMove", "kbd_getFrequencyFromX"}
       /\ pitchIn.x >= KeyboardLeft /\ pitchIn.x < KeyboardLeft + ScreenW

\* C20: the mappings of the components never extrapolate: the note they
\* select is one of START_NOTE..END_NOTE of the component.
C20_ComponentPitchClamped ==
    (pitchIn # <<>> /\ pitchOut # <<>> /\ ComponentX) =>
        LET f == pitchOut[1]
            lo == IF pitchIn.fn = "kbd_getFrequencyFromX" THEN KBD_START_NOTE ELSE START_NOTE
            hi == IF pitchIn.fn = "kbd_getFrequencyFromX" THEN KBD_END_NOTE ELSE END_NOTE
        IN  f.note >= lo /\ f.note <= hi

\* a call of mapXToFreq has returned
MapXToFreqDone == pitchIn # <<>> /\ pitchOut # <<>> /\ pitchIn.fn = "mapXToFreq"

\* C21 as stated: the position in the key, xInKey = num / den, that mapXToFreq
\* computes is in the half-open interval [0, 1) for every x and width > 0.
C21_XInKeyHalfOpen ==
    MapXToFreqDone => (pitchOut[1].num >= 0 /\ pitchOut[1].num < pitchOut[1].den)

\* C21 amended: xInKey is in the closed interval [0, 1], and it is 1 exactly
\* when the clamped x is the width (x >= width), where the key is the last one.
C21_XInKeyClosed ==
    MapXToFreqDone =>
        LET f == pitchOut[1]
        IN  /\ 0 <= f.num /\ f.num <= f.den
            /\ (f.num = f.den) <=> (pitchIn.x >= pitchIn.width)
            /\ (f.num = f.den) => f.note = audio_END_NOTE

\* mapXToFreq was called with x = width and returned the end of the last key
C21_Witness ==
    /\ MapXToFreqDone
    /\ pitchIn.x = pitchIn.width /\ pitchIn.width = ScreenW
    /\ pitchOut[1].num = pitchOut[1].den

\* the exponent of a frequency above freq(0), in semitones times den:
\* freq(note) * (freq(note+1)/freq(note))^(num/den) grows with note + num/den
Semitones(f) == f.note * f.den + f.num

LexLeq(f, g) == f.note < g.note \/ (f.note = g.note /\ f.num * g.den <= g.num * f.den)

\* both calls of the pair have returned
PairDone == component = "pitchPair" /\ Len(pitchOut) = 2

\* C22: for a fixed width mapXToFreq is non-decreasing in x: with x <= x2 the
\* pair (note, position in the key) of x is lexicographically at most that of
\* x2 and so is the frequency, across key boundaries and the clamped ends.
C22_Monotonic ==
    (PairDone /\ pitchIn.x <= pitchIn.x2) =>
        /\ LexLeq(pitchOut[1], pitchOut[2])
        /\ Semitones(pitchOut[1]) <= Semitones(pitchOut[2])

\* x is in the last but one key and x2 right of the surface
C22_Witness ==
    /\ PairDone
    /\ pitchIn.width = 48 /\ pitchIn.x = 46 /\ pitchIn.x2 > pitchIn.width
    /\ pitchOut[1].note < pitchOut[2].note

\* a gain value is in [0, maxVolume], maxVolume = 0.25
InVolumeRange(g) == g.den > 0 /\ g.num >= 0 /\ 4 * g.num <= g.den

GainLeq(g, h) == g.num * h.den <= h.num * g.den

\* the gain target of the voice a slot holds is the volume of height y:
\* maxVolume at and above the top, 0 at and below the bottom, in range between
VolumeOf(slot, y) ==
    LET g == nodes[gainRef[slot]].gain
    IN  /\ InVolumeRange(g)
        /\ y <= 0 => GainLeq(Gain(1, 4), g)
        /\ y >= ScreenH => g.num = 0
        /\ (y > 0 /\ y < ScreenH) => (g.num > 0 /\ 4 * g.num < g.den)

\* the pointer's voice before and after a handler
MouseGain == nodes[gainRef["mouse"]].gain
MouseGainAfter == nodes'[gainRef'["mouse"]].gain

\* the most recent handler is a handleMouseEnter that started the voice (one
\* that finds the slot occupied issues no call)
EnterStarted == last = "handleMouseEnter" /\ calls # <<>>

VolumeTargets ==
    /\ \A id \in DOMAIN nodes : InVolumeRange(nodes[id].gain)
    /\ (gainRef["mouse"] # 0 /\ EnterStarted) => VolumeOf("mouse", pitchIn.y)
    /\ (gainRef["mouse"] # 0 /\ last = "handleMouseMove") => VolumeOf("mouse", pitchIn.y2)
    /\ (gainRef["R0"] # 0 /\ last = "rightHandsEffect" /\ rightHands # <<>>)
          => VolumeOf("R0", rightHands[1].y)

VolumeMonotonic ==
    (/\ EnterStarted /\ last' = "handleMouseMove"
     /\ gainRef["mouse"] # 0 /\ gainRef'["mouse"] # 0) =>
        /\ pitchIn.y <= pitchIn.y2 => GainLeq(MouseGainAfter, MouseGain)
        /\ pitchIn.y >= pitchIn.y2 => GainLeq(MouseGain, MouseGainAfter)

\* C23: getVolumeFromY returns a value in [0, maxVolume] for every y, above
\* and below the canvas included; maxVolume at y = 0, 0 at y = height,
\* non-increasing in y; so every gain target of a voice is in [0, maxVolume].
C23_VolumeInRange == [](component = "App" => VolumeTargets) /\ [][VolumeMonotonic]_vars

\* the pointer entered above the canvas and moved below it: the voice's gain
\* target went from maxVolume to 0
C23_Witness ==
    /\ component = "App" /\ pitchIn # <<>> /\ pitchIn.fn = "getVolumeFromY"
    /\ pitchIn.y < 0 /\ pitchIn.y2 > ScreenH
    /\ last = "handleMouseMove" /\ gainRef["mouse"] # 0
    /\ nodes[gainRef["mouse"]].gain.num = 0

\* the calls of one handler that name voice id, in the order issued
CallsFor(cs, id) == SelectSeq(cs, LAMBDA c : c.node = id)

\* slot s holds a voice that sounds: started, connected, never stopped
HoldsVoice(ns, o, g, s) ==
    /\ o[s] # 0 /\ g[s] = o[s] /\ o[s] \in DOMAIN ns
    /\ ns[o[s]].started /\ ns[o[s]].connected /\ ns[o[s]].stops = 0

\* what a run of a side's effect does to the slot of index i:
\*   the point appears  -> a new voice is started with the point's parameters
\*   the point persists -> the same voice is updated to the point's parameters
\*                         (an unchanged point leaves them as they were) and
\*                         goes on sounding
\*   the point is gone  -> the voice is stopped and the slot is idle
AppearPersistVanish(list, slots, i) ==
    LET s == slots[i]
        id == oscRef[s]
        new == oscRef'[s]
    IN  /\ (i <= Len(list) /\ id = 0) =>
              /\ new \notin DOMAIN nodes
              /\ CallsFor(calls', new) = StartCalls(new, ATTACK)
        /\ (i <= Len(list) /\ id # 0) =>
              /\ new = id
              /\ CallsFor(calls', id) = UpdateCalls(id, id)
              /\ (nodes[id].src = list[i].id /\ nodes[id].freq = getFrequencyFromX(list[i].x)
                  /\ nodes[id].gain = getVolumeFromY(list[i].y))
                    => (nodes'[id].freq = nodes[id].freq /\ nodes'[id].gain = nodes[id].gain)
        /\ i <= Len(list) =>
              /\ nodes'[new].freq = getFrequencyFromX(list[i].x)
              /\ nodes'[new].gain = getVolumeFromY(list[i].y)
        /\ (i > Len(list) /\ id # 0) =>
              /\ CallsFor(calls', id) = StopCalls(id, id)
              /\ id \notin DOMAIN nodes'
        /\ HoldsVoice(nodes', oscRef', gainRef', s) <=> i <= Len(list)
        /\ (oscRef'[s] # 0 \/ gainRef'[s] # 0) <=> i <= Len(list)

\* C24: a point that appears at index 0 of a side, persists unchanged in the
\* next frame and is absent in the one after gets start, update (same
\* parameters, still sounding), stop on that slot; after every run of a
\* side's effect the slot of index i holds a voice iff the list has a point
\* at index i.
C24_StartUpdateStop ==
    [][ EffectStep =>
          LET list == IF Head(effects) = "right" THEN rightHands ELSE leftHands
              slots == IF Head(effects) = "right" THEN RightSlots ELSE LeftSlots
          IN  \A i \in 1..MAX_SIDE : AppearPersistVanish(list, slots, i) ]_vars

\* the left effect has just updated the voice of slot L0, started for the
\* hand that is still at index 0, and nothing else
C24_Witness ==
    /\ component = "App" /\ last = "leftHandsEffect"
    /\ Len(leftHands) = 1 /\ oscRef["L0"] # 0
    /\ nodes[oscRef["L0"]].src = leftHands[1].id
    /\ calls = UpdateCalls(oscRef["L0"], oscRef["L0"])

\* the slots a handler of the App may act on
OwnSlots(handler) ==
    IF handler \in {"handleMouseEnter", "handleMouseMove", "handleMouseLeave"}
    THEN {"mouse"}
    ELSE IF handler = "rightHandsEffect" THEN SideSlots(RightSlots)
    ELSE IF handler = "leftHandsEffect" THEN SideSlots(LeftSlots)
    ELSE IF handler = "unmount" THEN AppSlots
    ELSE {}

\* a step leaves slot s alone: its refs and the voice they hold are as before
SlotUntouched(s) ==
    /\ oscRef'[s] = oscRef[s] /\ gainRef'[s] = gainRef[s]
    /\ oscRef[s] # 0 => (oscRef[s] \in DOMAIN nodes' /\ nodes'[oscRef[s]] = nodes[oscRef[s]])
    /\ gainRef[s] # 0 => (gainRef[s] \in DOMAIN nodes' /\ nodes'[gainRef[s]] = nodes[gainRef[s]])

\* the voices the slots of S hold before or after a step
VoicesOf(S) == { oscRef[s] : s \in S } \cup { oscRef'[s] : s \in S }
               \cup { gainRef[s] : s \in S } \cup { gainRef'[s] : s \in S }

\* within the handler's own slots, a slot changes only by an operation on
\* its own voice: its refs change only with a start or a stop of that voice
OwnOperation(s) ==
    (oscRef'[s] # oscRef[s] \/ gainRef'[s] # gainRef[s]) =>
        \/ oscRef[s] = 0 /\ CallsFor(calls', oscRef'[s]) = StartCalls(oscRef'[s], ATTACK)
        \/ oscRef'[s] = 0 /\ CallsFor(calls', oscRef[s]) = StopCalls(oscRef[s], gainRef[s])

\* C25: no cross-voice mutation: a pointer event changes no hand slot, the
\* left effect changes no right or pointer slot, the right effect no left or
\* pointer slot; every Web Audio call of a handler is on a voice of its own
\* slots, and a slot's refs change only by a start or stop of its own voice.
C25_NoCrossVoice ==
    [][ component = "App" =>
          LET own == OwnSlots(last')
          IN  /\ \A s \in AppSlots \ own : SlotUntouched(s)
              /\ \A k \in DOMAIN calls' :
                    calls'[k].node # 0 => calls'[k].node \in VoicesOf(own)
              /\ \A s \in own : OwnOperation(s) ]_vars

\* the pointer left the surface (its voice was stopped) while a right and a
\* left slot held voices
C25_Witness ==
    /\ component = "App" /\ last = "handleMouseLeave" /\ HasCall("osc.stop")
    /\ oscRef["R0"] # 0 /\ oscRef["L0"] # 0 /\ oscRef["mouse"] = 0

\* two frequencies have the same note and the same position in the key
SamePitch(f, g) == f.note = g.note /\ f.num * g.den = g.num * f.den

\* C26: the pointer slot uses one pitch mapping for all its events: the note
\* and in-key offset the voice is started with on mouse enter at clientX are
\* those a mouse move at the same clientX gives it.
C26_OnePointerMapping ==
    [][ (/\ component = "App" /\ EnterStarted /\ last' = "handleMouseMove"
         /\ oscRef["mouse"] # 0 /\ oscRef'["mouse"] = oscRef["mouse"])
          => SamePitch(nodes'[oscRef["mouse"]].freq, nodes[oscRef["mouse"]].freq) ]_vars

\* C27: with the helpers of utils/audio.ts, in any interleaving of stops,
\* starts and cleanup timers on the slot: after a startOscillator the slot
\* holds an oscillator that is started and not stopped, and a cleanup timer
\* disconnects and clears only an oscillator that a stopOscillator released,
\* never one that a later startOscillator created.
C27_TimerClearsOwnOscillator ==
    [][ component = "utils" =>
          /\ last' = "startOscillator" =>
                /\ oscRef'["util"] # 0
                /\ nodes'[oscRef'["util"]].started
                /\ nodes'[oscRef'["util"]].stops = 0
          /\ (last' = "cleanupTimeout" /\ oscRef["util"] # 0) =>
                nodes[oscRef["util"]].stops > 0 ]_vars

\* at most one request is pending and a frame invokes the callback at most once
OneRequest ==
    /\ [](component = "hook" => Cardinality(requests) <= 1)
    /\ [][component = "hook" => ticks' <= ticks + 1]_vars

\* the hook has been told to stop: the last render's shouldAnimate is false
\* or the component is unmounted
ToldToStop == ~mounted \/ ~props.shouldAnimate

\* C28 as stated: at most one animation-frame request is pending whatever
\* the sequence of shouldAnimate toggles and callback changes, the callback
\* is invoked at most once per frame, and not at all after shouldAnimate
\* becomes false or the component unmounts.
C28_OneRequestNoneAfterStop ==
    /\ OneRequest
    /\ [][(component = "hook" /\ ToldToStop) => ticks' = ticks]_vars

\* C28 amended: as stated, but the callback is not invoked once the deferred
\* effect (or, on unmount, the deferred cleanup) of that commit has run;
\* from then on no request is pending.
C28_OneRequestNoneAfterEffect ==
    /\ OneRequest
    /\ [](component = "hook" /\ ToldToStop /\ effects = <<>> => requests = {})
    /\ [][(component = "hook" /\ ToldToStop /\ effects = <<>>) => ticks' = ticks]_vars

\* the effect re-ran because the callback changed while a request was
\* pending and the callback had been invoked: the old request was cancelled
\* and one new request is pending
C28_Witness ==
    /\ component = "hook" /\ last = "effect" /\ props.shouldAnimate
    /\ ticks >= 1 /\ frameRef >= 3 /\ requests = {frameRef}

====
